---- MODULE Spec2Model ----
(***************************************************************************)
(* A model of superblockify's partitioning engine:                         *)
(*   - partitioning/checks.py   : the validity checker, step by step       *)
(*   - partitioning/partitioner.py, partitioning/bearing.py : the          *)
(*     partitioner lifecycle and the bearing strategy                      *)
(*   - metrics/metric.py        : the Metric, its calculations, its        *)
(*     string form and its files                                           *)
(*   - partitioning/utils.py    : save_to_gpkg                             *)
(***************************************************************************)
EXTENDS Integers, Sequences, FiniteSets, TLC

VARIABLES
    \* ---- the partitioning handed to is_valid_partitioning ----
    graph,          \* partitioning.graph: [nodes, edges] of the parent graph
    components,     \* partitioning.components: list of [name, subgraph]
    partitions,     \* partitioning.partitions: list of [name, subgraph]
    sparsified,     \* partitioning.sparsified: edge set of the sparsified graph
    \* ---- the run of is_valid_partitioning ----
    pc,             \* position inside is_valid_partitioning
    ci,             \* loop position inside components_are_connected
    found,          \* local `found` of components_are_connected
    trace,          \* the numbers of the checks evaluated so far, in order
    log,            \* the logger.error reports emitted so far, in order
    highlight,      \* edge attribute 'highlight' of partitioning.graph
    missing_nodes,  \* node attribute 'missing_nodes' of partitioning.graph
    result,         \* return value of is_valid_partitioning, "none" while running
    derived,        \* TRUE when the partitioning was made from an accepted one
                    \* by assigning one edge to a second edge set
    \* ---- a BearingPartitioner and the graph it was constructed with ----
    bearing,        \* edge attribute 'bearing' of partitioner.graph, per edge
    bearing_90,     \* edge attribute 'bearing_90', per edge
    bearing_group,  \* edge attribute 'bearing_group', per edge
    bin_info,       \* self._bin_info
    inter_vals,     \* self._inter_vals
    partition,      \* self.partition
    attribute_label,\* self.attribute_label
    \* ---- the calls made on the partitioner ----
    rpc,            \* position inside BearingPartitioner.run, "idle" outside
    last_call,      \* the method that was called last
    raised,         \* the exception that call ended with, "none" without one
    entry,          \* the partitioner's fields when run was entered last
    ran_ok,         \* TRUE once a run has returned without an exception
    edited,         \* TRUE once the caller has changed a bearing of the graph
    \* ---- calls of the static methods merge_sets and ----
    \* ---- group_overlapping_intervals                 ----
    ms_bases,       \* the arrays handed to group_overlapping_intervals, or None
    ms_sets,        \* the list of sets handed to merge_sets
    ms_once,        \* what the call did: [err, sets], None before the call
    ms_twice,       \* what merge_sets did on the list returned, or None
    ms_pc,          \* "start", "once", "twice"
    \* ---- a Metric, the partitioner it is used with, and the files ----
    metric,         \* the Metric object: its __dict__, a record of its fields
    mt_part,        \* the partitioner handed to calculate_before and
                    \* calculate_all: its graph's nodes and its partitions
    files,          \* the file system: the directories that exist (dirs), and
                    \* what is stored at each path, or None (at)
    mt_call,        \* the method of Metric that was called last
    mt_arg,         \* the argument of that call, None when it has none
    mt_raised,      \* the exception that call ended with, "none" without one
    mt_result,      \* what that call returned, None when it returns nothing
    mt_entry,       \* the Metric when that call was entered
    \* ---- save_to_gpkg on the partitioning ----
    gp_sparsified,  \* partitioner.sparsified: None, or the sparsified graph
                    \* (its edge set, which may be empty)
    classification, \* edge attribute 'classification' of the graph, per edge
    gpkg,           \* the layer "edges" of the file written: the column
                    \* 'classification' per edge, None while no file is written
    gp_call,        \* "save_to_gpkg" once it has been called, "none" before
    gp_raised,      \* the exception that call ended with, "none" without one
    \* ---- determine_minmax_val called on its own ----
    mm_values,      \* the values of the attribute on the edges that have it, a list
    mm_arg,         \* the argument minmax_val: None or a pair of bounds
    mm_out,         \* what the call did: [err, val], None before the call
    \* ---- the distance engine called on the partitioning above ----
    d_weight,       \* the edge attribute chosen as weight, per edge of the graph
    d_order,        \* the argument node_order: None or a list of the nodes
    d_opts,         \* num_workers, chunk_size, max_mem_factor, check_overlap
    d_pc,           \* position inside calculate_partitioning_distance_matrix
    d_pending,      \* the chunks of parts no worker has taken yet
    d_flight,       \* the chunks that workers are computing
    d_rows,         \* the rows of the dense matrices while the workers run
    d_out,          \* per label E, S, N what the call did: [err, dist, pred], or None
    \* ---- calculate_all followed statement by statement ----
    ca_pc,          \* position inside Metric.calculate_all, idle outside
    ca_arg,         \* the argument replace_max_speeds of the call
    ca_pending,     \* the partitions whose rows of N are not computed yet
    ca_writes       \* the attributes written to the graph since the call was entered

chkVars == <<graph, components, partitions, sparsified, pc, ci, found, trace,
             log, highlight, missing_nodes, result, derived>>

partVars == <<bearing, bearing_90, bearing_group, bin_info, inter_vals,
              partition, attribute_label, rpc, last_call, raised, entry,
              ran_ok, edited>>

mergeVars == <<ms_bases, ms_sets, ms_once, ms_twice, ms_pc>>

metVars == <<metric, mt_part, files, mt_call, mt_arg, mt_raised, mt_result,
            mt_entry>>

gpkgVars == <<gp_sparsified, classification, gpkg, gp_call, gp_raised>>

plotVars == <<mm_values, mm_arg, mm_out>>

distVars == <<d_weight, d_order, d_opts, d_pc, d_pending, d_flight, d_rows, d_out>>

stepVars == <<ca_pc, ca_arg, ca_pending, ca_writes>>

vars == <<chkVars, partVars, mergeVars, metVars, gpkgVars, plotVars, distVars, stepVars>>

\* the variables that a step of the checker, of the partitioner, of the set
\* merging, of the Metric, of save_to_gpkg leaves alone
exceptChecker == <<partVars, mergeVars, metVars, gpkgVars, plotVars, distVars, stepVars>>
exceptPartitioner == <<chkVars, mergeVars, metVars, gpkgVars, plotVars, distVars, stepVars>>
exceptMerge == <<chkVars, partVars, metVars, gpkgVars, plotVars, distVars, stepVars>>
exceptMetric == <<chkVars, partVars, mergeVars, gpkgVars, plotVars, distVars, stepVars>>
exceptGpkg == <<partVars, mergeVars, metVars, plotVars, distVars, stepVars>>
exceptStep == <<chkVars, partVars, mergeVars, gpkgVars, plotVars, distVars>>
exceptDist == <<chkVars, partVars, mergeVars, metVars, gpkgVars, plotVars, stepVars>>
exceptPlot == <<chkVars, partVars, mergeVars, metVars, gpkgVars, distVars, stepVars>>

----------------------------------------------------------------------------
(* Bounds *)

\* the longest list of components / partitions that is enumerated
MaxParts == 2

----------------------------------------------------------------------------
(* The parent graph: a MultiDiGraph, edges are (u, v, key) *)

\* nodes of an edge-induced subgraph view: the endpoints of its edges
NodesOf(edges) == {e[1] : e \in edges} \cup {e[2] : e \in edges}

\* a graph without isolated nodes, given by its edges
GraphOf(edges) == [nodes |-> NodesOf(edges), edges |-> edges]

\* a connected street graph: the path 1 - 2 - 3 - 4
PathGraph == GraphOf({<<1, 2, 0>>, <<2, 3, 0>>, <<3, 4, 0>>})

\* a street that is mapped in both directions, and a side street
TwoWayGraph == GraphOf({<<1, 2, 0>>, <<2, 1, 0>>, <<2, 3, 0>>})

\* a graph of two disconnected streets
SplitGraph == GraphOf({<<1, 2, 0>>, <<3, 4, 0>>})

\* a two-way street and a node no street leads to
IsolatedGraph == [nodes |-> {1, 2, 3}, edges |-> {<<1, 2, 0>>, <<2, 1, 0>>}]

Graphs == {PathGraph, TwoWayGraph, SplitGraph, IsolatedGraph}

\* the nodes reached from the nodes seen, directions ignored
RECURSIVE Reach(_, _)
Reach(seen, edges) ==
    LET more == seen \cup {e[2] : e \in {d \in edges : d[1] \in seen}}
                     \cup {e[1] : e \in {d \in edges : d[2] \in seen}}
    IN  IF more = seen THEN seen ELSE Reach(more, edges)

\* networkx.is_weakly_connected on an edge-induced subgraph: every node is
\* reached from every other; on the null graph, which a subgraph without an
\* edge is, networkx raises NetworkXPointlessConcept
is_weakly_connected(edges) ==
    IF NodesOf(edges) = {}
    THEN [err |-> "NetworkXPointlessConcept", value |-> FALSE]
    ELSE [err |-> "none",
          value |-> \A n \in NodesOf(edges) :
                       Reach({n}, edges) = NodesOf(edges)]

----------------------------------------------------------------------------
(* Helpers of the checks *)

\* `partitioning.components if partitioning.components else
\*  partitioning.partitions`
ActiveParts(comps, parts) == IF comps # <<>> THEN comps ELSE parts

\* BasePartitioner.get_partition_nodes: name, subgraph and nodes of every
\* component (or partition); the nodes of a part are the nodes of its
\* subgraph that are not nodes of the sparsified graph
get_partition_nodes(comps, parts, sparse) ==
    LET act == ActiveParts(comps, parts)
    IN  [i \in 1 .. Len(act) |->
            [name     |-> act[i].name,
             subgraph |-> act[i].subgraph,
             nodes    |-> NodesOf(act[i].subgraph) \ NodesOf(sparse)]]

\* utils.has_pairwise_overlap: matrix[i][j] is True when lists i and j share
\* an element
has_pairwise_overlap(lists) ==
    [i \in 1 .. Len(lists) |->
        [j \in 1 .. Len(lists) |-> lists[i] \cap lists[j] # {}]]

\* numpy.fill_diagonal(matrix, False)
fill_diagonal_false(matrix) ==
    [i \in DOMAIN matrix |->
        [j \in DOMAIN matrix[i] |-> IF i = j THEN FALSE ELSE matrix[i][j]]]

\* matrix.any()
MatrixAny(matrix) == \E i \in DOMAIN matrix : \E j \in DOMAIN matrix[i] : matrix[i][j]

\* the pairs the error message lists: argwhere(matrix) with i < j
OverlapPairs(matrix, names) ==
    {<<names[p[1]], names[p[2]]>> :
        p \in {q \in (DOMAIN matrix) \X (DOMAIN matrix) :
                    q[1] < q[2] /\ matrix[q[1]][q[2]]}}

\* lines 144-147: overlap of the node lists of the parts
NodesOverlapMatrix(pns) ==
    fill_diagonal_false(
        has_pairwise_overlap([i \in 1 .. Len(pns) |-> pns[i].nodes]))

\* a slip: the difference is taken the wrong way round
MissingNodes_Reversed(g, pns, sparse) ==
    (UNION {pns[i].nodes : i \in 1 .. Len(pns)} \ g.nodes) \ NodesOf(sparse)

\* lines 163-170: nodes in no part and not in the sparsified graph
MissingNodes(g, pns, sparse) ==
    (g.nodes \ UNION {pns[i].nodes : i \in 1 .. Len(pns)}) \ NodesOf(sparse)

\* lines 193-197: overlap of the edge lists, the sparsified graph's appended
EdgesOverlapMatrix(pns, sparse) ==
    fill_diagonal_false(
        has_pairwise_overlap(
            [i \in 1 .. Len(pns) |-> pns[i].subgraph] \o <<sparse>>))

\* line 199: namelist
EdgeNameList(pns) == [i \in 1 .. Len(pns) |-> pns[i].name] \o <<"sparse">>

\* lines 214-223: edges in no part and not in the sparsified graph
MissingEdges(g, pns, sparse) ==
    (g.edges \ UNION {pns[i].subgraph : i \in 1 .. Len(pns)}) \ sparse

\* lines 256-260: some graph node is in the component and in the sparsified
\* graph
TouchesSparsified(g, component, sparse) ==
    \E node \in g.nodes :
        node \in NodesOf(component.subgraph) /\ node \in NodesOf(sparse)

\* lines 251-266: the components in list order up to the first that does not
\* touch the sparsified graph; 0 when all do
FirstUntouching(g, act, sparse) ==
    IF \A i \in 1 .. Len(act) : TouchesSparsified(g, act[i], sparse)
    THEN 0
    ELSE CHOOSE i \in 1 .. Len(act) :
            /\ ~TouchesSparsified(g, act[i], sparse)
            /\ \A j \in 1 .. (i - 1) : TouchesSparsified(g, act[j], sparse)

----------------------------------------------------------------------------
(* Inputs of the checker *)

NoAttr == "unset"

\* the value 1 that line 107 writes to the attribute 'highlight', kept as a
\* string like the other values an attribute takes here
Highlighted == "1"

\* lists of lo .. hi parts over the edges of g; every subgraph holds an edge
PartLists(g, lo, hi) ==
    UNION {[1 .. n -> (SUBSET g) \ {{}}] : n \in lo .. hi}

\* lists of 1 .. n parts, a subgraph without an edge among them
AnyPartLists(g, n) == UNION {[1 .. k -> SUBSET g] : k \in 1 .. n}

Named(lst) == [i \in 1 .. Len(lst) |-> [name |-> ToString(i), subgraph |-> lst[i]]]

CheckerInit ==
    /\ graph \in Graphs
    /\ sparsified \in SUBSET graph.edges
    /\ \/ /\ components = <<>>
          /\ \E l \in AnyPartLists(graph.edges, MaxParts) : partitions = Named(l)
       \/ /\ \E l \in AnyPartLists(graph.edges, MaxParts) : components = Named(l)
          /\ \E l \in PartLists(graph.edges, 1, 1) : partitions = Named(l)
    /\ pc = "sparsified_connected"
    /\ ci = 0
    /\ found = TRUE
    /\ trace = <<>>
    /\ log = <<>>
    /\ highlight = [e \in graph.edges |-> NoAttr]
    /\ missing_nodes = [n \in graph.nodes |-> NoAttr]
    /\ result = "none"
    /\ derived = FALSE

Report(check, detail) == [check |-> check, detail |-> detail]

Fail(check, detail) ==
    /\ log' = Append(log, Report(check, detail))
    /\ result' = FALSE
    /\ pc' = "done"

----------------------------------------------------------------------------
(* is_valid_partitioning, one action per check *)

\* lines 44-50
SparsifiedConnected ==
    /\ pc = "sparsified_connected"
    /\ trace' = Append(trace, 1)
    /\ IF is_weakly_connected(sparsified).err # "none"
       THEN /\ pc' = "raised NetworkXPointlessConcept"
            /\ UNCHANGED <<ci, found, log, result>>
       ELSE IF ~is_weakly_connected(sparsified).value
       THEN /\ Fail("disconnected-sparse", {})
            /\ UNCHANGED <<ci, found>>
       ELSE /\ pc' = "components_connected"
            /\ ci' = 1
            /\ found' = TRUE
            /\ UNCHANGED <<log, result>>
    /\ UNCHANGED <<graph, components, partitions, sparsified, highlight,
                   missing_nodes, derived>>
    /\ UNCHANGED exceptChecker

\* lines 95-107: one iteration of the loop of components_are_connected up to
\* the call of plot_by_attribute
ComponentConnected ==
    /\ pc = "components_connected"
    /\ ci <= Len(ActiveParts(components, partitions))
    /\ LET component == ActiveParts(components, partitions)[ci]
       IN  IF is_weakly_connected(component.subgraph).err # "none"
           THEN /\ pc' = "raised NetworkXPointlessConcept"
                /\ UNCHANGED <<ci, log, highlight>>
           ELSE IF ~is_weakly_connected(component.subgraph).value
           THEN /\ log' = Append(log, Report("disconnected-component",
                                             {component.name}))
                /\ highlight' = [e \in graph.edges |->
                        IF e \in component.subgraph THEN Highlighted
                        ELSE highlight[e]]
                /\ pc' = "components_plot"
                /\ UNCHANGED ci
           ELSE /\ ci' = ci + 1
                /\ UNCHANGED <<log, highlight, pc>>
    /\ trace' = IF ci = 1 THEN Append(trace, 2) ELSE trace
    /\ UNCHANGED <<graph, components, partitions, sparsified, found,
                   missing_nodes, result, derived>>
    /\ UNCHANGED exceptChecker

\* lines 108-114: plot_by_attribute(graph, "highlight", attr_types="numerical",
\* cmap="hsv", minmax_val=(0, 1)).  plot_by_attribute (plot.py 53-61) has no
\* parameter attr_types, so the keyword goes with **pg_kwargs to
\* osmnx.plot_graph (plot.py 137-143), which has no such parameter and takes
\* no other keywords: the call raises TypeError.  Lines 116-119 are not
\* reached: the tag stays on the component's edges, found stays True, and
\* is_valid_partitioning ends with the exception.
ComponentPlotted ==
    /\ pc = "components_plot"
    /\ pc' = "raised TypeError"
    /\ UNCHANGED <<graph, components, partitions, sparsified, ci, found, trace,
                   log, highlight, missing_nodes, result, derived>>
    /\ UNCHANGED exceptChecker

\* line 121 and lines 54-55
ComponentsConnectedReturn ==
    /\ pc = "components_connected"
    /\ ci > Len(ActiveParts(components, partitions))
    /\ IF found
       THEN pc' = "nodes_overlap" /\ UNCHANGED result
       ELSE pc' = "done" /\ result' = FALSE
    /\ UNCHANGED <<graph, components, partitions, sparsified, ci, found,
                   trace, log, highlight, missing_nodes, derived>>
    /\ UNCHANGED exceptChecker

\* lines 141-160
NodesOverlap ==
    /\ pc = "nodes_overlap"
    /\ trace' = Append(trace, 3)
    /\ LET pns == get_partition_nodes(components, partitions, sparsified)
           mat == NodesOverlapMatrix(pns)
       IN  IF MatrixAny(mat)
           THEN Fail("node-overlap",
                     OverlapPairs(mat, [i \in 1 .. Len(pns) |-> pns[i].name]))
           ELSE pc' = "missing_nodes" /\ UNCHANGED <<log, result>>
    /\ UNCHANGED <<graph, components, partitions, sparsified, ci, found,
                   highlight, missing_nodes, derived>>
    /\ UNCHANGED exceptChecker

\* lines 162-190
NodesMissing ==
    /\ pc = "missing_nodes"
    /\ trace' = Append(trace, 4)
    /\ LET pns == get_partition_nodes(components, partitions, sparsified)
           missing == MissingNodes(graph, pns, sparsified)
       IN  IF Cardinality(missing) > 0
           THEN /\ Fail("missing-nodes", missing)
                /\ missing_nodes' = [n \in graph.nodes |-> n \in missing]
           ELSE /\ pc' = "edges_overlap"
                /\ UNCHANGED <<log, result, missing_nodes>>
    /\ UNCHANGED <<graph, components, partitions, sparsified, ci, found,
                   highlight, derived>>
    /\ UNCHANGED exceptChecker

\* lines 192-211
EdgesOverlap ==
    /\ pc = "edges_overlap"
    /\ trace' = Append(trace, 5)
    /\ LET pns == get_partition_nodes(components, partitions, sparsified)
           mat == EdgesOverlapMatrix(pns, sparsified)
       IN  IF MatrixAny(mat)
           THEN Fail("edge-overlap", OverlapPairs(mat, EdgeNameList(pns)))
           ELSE pc' = "missing_edges" /\ UNCHANGED <<log, result>>
    /\ UNCHANGED <<graph, components, partitions, sparsified, ci, found,
                   highlight, missing_nodes, derived>>
    /\ UNCHANGED exceptChecker

\* lines 213-234
EdgesMissing ==
    /\ pc = "missing_edges"
    /\ trace' = Append(trace, 6)
    /\ LET pns == get_partition_nodes(components, partitions, sparsified)
           missing == MissingEdges(graph, pns, sparsified)
       IN  IF Cardinality(missing) > 0
           THEN Fail("missing-edges", missing)
           ELSE pc' = "connect_sparsified" /\ UNCHANGED <<log, result>>
    /\ UNCHANGED <<graph, components, partitions, sparsified, ci, found,
                   highlight, missing_nodes, derived>>
    /\ UNCHANGED exceptChecker

\* lines 237-268 and lines 72-77
ConnectSparsified ==
    /\ pc = "connect_sparsified"
    /\ trace' = Append(trace, 7)
    /\ LET act == ActiveParts(components, partitions)
           bad == FirstUntouching(graph, act, sparsified)
       IN  IF bad # 0
           THEN Fail("component-disconnected-from-sparse", {act[bad].name})
           ELSE /\ pc' = "done"
                /\ result' = TRUE
                /\ UNCHANGED log
    /\ UNCHANGED <<graph, components, partitions, sparsified, ci, found,
                   highlight, missing_nodes, derived>>
    /\ UNCHANGED exceptChecker

----------------------------------------------------------------------------
(* A caller changes an accepted partitioning and has it checked again *)

\* the partitioning with edge e additionally in the subgraph of part i of lst
AddEdge(lst, i, e) ==
    [lst EXCEPT ![i].subgraph = lst[i].subgraph \cup {e}]

\* an edge that already lies in one edge set is additionally assigned to
\* another component (or partition), or to the sparsified graph
AssignSecond ==
    /\ pc = "done"
    /\ result = TRUE
    /\ ~derived
    /\ \E e \in graph.edges :
        \/ /\ e \notin sparsified
           /\ sparsified' = sparsified \cup {e}
           /\ UNCHANGED <<components, partitions>>
        \/ \E i \in 1 .. Len(ActiveParts(components, partitions)) :
            /\ e \notin ActiveParts(components, partitions)[i].subgraph
            /\ IF components # <<>>
               THEN /\ components' = AddEdge(components, i, e)
                    /\ UNCHANGED partitions
               ELSE /\ partitions' = AddEdge(partitions, i, e)
                    /\ UNCHANGED components
            /\ UNCHANGED sparsified
    /\ derived' = TRUE
    /\ pc' = "sparsified_connected"
    /\ ci' = 0
    /\ found' = TRUE
    /\ trace' = <<>>
    /\ log' = <<>>
    /\ result' = "none"
    /\ UNCHANGED <<graph, highlight, missing_nodes>>
    /\ UNCHANGED exceptChecker

CheckerNext ==
    \/ SparsifiedConnected
    \/ ComponentConnected
    \/ ComponentPlotted
    \/ ComponentsConnectedReturn
    \/ NodesOverlap
    \/ NodesMissing
    \/ EdgesOverlap
    \/ EdgesMissing
    \/ ConnectSparsified
    \/ AssignSecond

----------------------------------------------------------------------------
(* What the claims speak about, stated without the operators of the checks *)

\* the list of components the checker looks at
TheParts == IF Len(components) > 0 THEN components ELSE partitions

PartEdges(i) == TheParts[i].subgraph

\* all nodes of the subgraph of part i
SubgraphNodes(i) == {n \in graph.nodes : \E e \in PartEdges(i) : n = e[1] \/ n = e[2]}

SparseNodes == {n \in graph.nodes : \E e \in sparsified : n = e[1] \/ n = e[2]}

\* the node set of part i: its nodes outside the sparsified graph
PartNodeSet(i) == SubgraphNodes(i) \ SparseNodes

\* no cut of the node set is free of edges
Connected(edges) ==
    LET ns == {e[1] : e \in edges} \cup {e[2] : e \in edges}
    IN  \A cut \in SUBSET ns :
            (cut # {} /\ cut # ns) =>
                \E e \in edges : (e[1] \in cut) # (e[2] \in cut)

PartIds == 1 .. Len(TheParts)

Cond1 == Connected(sparsified)
Cond2 == \A i \in PartIds : Connected(PartEdges(i))
Cond3 == \A i, j \in PartIds : i # j => PartNodeSet(i) \cap PartNodeSet(j) = {}
Cond4 == \A n \in graph.nodes :
            n \in SparseNodes \/ \E i \in PartIds : n \in SubgraphNodes(i)
Cond5 == /\ \A i, j \in PartIds : i # j => PartEdges(i) \cap PartEdges(j) = {}
         /\ \A i \in PartIds : PartEdges(i) \cap sparsified = {}
Cond6 == \A e \in graph.edges :
            e \in sparsified \/ \E i \in PartIds : e \in PartEdges(i)
Cond7 == \A i \in PartIds : SubgraphNodes(i) \cap SparseNodes # {}

Returned == pc = "done"

\* the call has left is_valid_partitioning with an exception
Raised == pc \in {"raised NetworkXPointlessConcept", "raised TypeError"}
Accepted == pc = "done" /\ result = TRUE
Rejected == pc = "done" /\ result = FALSE

----------------------------------------------------------------------------
(* C1 *)

\* the partitioning meets the seven conditions of the validity checker
AllSeven == Cond1 /\ Cond2 /\ Cond3 /\ Cond4 /\ Cond5 /\ Cond6 /\ Cond7

\* C1: is_valid_partitioning returns True only when all seven conditions
\* hold: sparsified graph connected, every component connected, node sets of
\* the components pairwise disjoint, no orphaned node, edge sets (components
\* and sparsified) pairwise disjoint, no orphaned edge, every component
\* shares a node with the sparsified graph; for every partitioning that
\* violates one of them the call returns False.
C1_ValidIffAllSeven ==
    /\ Returned => ((result = TRUE) = AllSeven)
    /\ (Raised /\ ~AllSeven) => (Returned /\ result = FALSE)

----------------------------------------------------------------------------
(* C2 *)

\* C2: a partitioning made from an accepted one by additionally assigning one
\* edge to a second, different edge set (another component, or the sparsified
\* graph) is rejected: the call of is_valid_partitioning on it returns False.
C2_SecondAssignmentRejected == (derived /\ (Returned \/ Raised)) => Rejected

----------------------------------------------------------------------------
(* C3 *)

\* the sets (components by index, 0 for the sparsified graph) whose subgraph
\* holds node n, resp. edge e
NodeHolders(n) ==
    {i \in PartIds : n \in SubgraphNodes(i)} \cup
    (IF n \in SparseNodes THEN {0} ELSE {})

EdgeHolders(e) ==
    {i \in PartIds : e \in PartEdges(i)} \cup
    (IF e \in sparsified THEN {0} ELSE {})

\* C3 as stated: in an accepted partitioning every node lies in exactly one of
\* the components and the sparsified graph, and every edge lies in exactly
\* one of them, except that a component's edge may also lie in the sparsified
\* graph.
C3_ExactlyOneAsStated ==
    Accepted =>
        /\ \A n \in graph.nodes : Cardinality(NodeHolders(n)) = 1
        /\ \A e \in graph.edges :
            /\ EdgeHolders(e) # {}
            /\ Cardinality(EdgeHolders(e) \ {0}) <= 1

\* C3 (amended): in an accepted partitioning every edge lies in exactly one of
\* the edge sets (components and sparsified graph, no exception); every node
\* lies in some component or in the sparsified graph, a node outside the
\* sparsified graph lies in exactly one component, and every component has
\* at least one node that is also a node of the sparsified graph.
C3_ExactlyOneAmended ==
    Accepted =>
        /\ \A e \in graph.edges : Cardinality(EdgeHolders(e)) = 1
        /\ \A n \in graph.nodes :
            /\ NodeHolders(n) # {}
            /\ n \notin SparseNodes => Cardinality(NodeHolders(n)) = 1
        /\ \A i \in PartIds : \E n \in graph.nodes : {0, i} \subseteq NodeHolders(n)

\* an accepted partitioning with two components
C3_Witness ==
    /\ Accepted
    /\ Len(TheParts) = 2
    /\ \E n \in graph.nodes : Cardinality(NodeHolders(n)) = 2

----------------------------------------------------------------------------
(* C4 *)

\* C4: a partitioning with a node in no component and not in the sparsified
\* graph, or with an edge in no component's edge set and not in the
\* sparsified graph's, is rejected: the call of is_valid_partitioning on it
\* returns False.
C4_OrphansRejected ==
    ((~Cond4 \/ ~Cond6) /\ (Returned \/ Raised)) => Rejected

----------------------------------------------------------------------------
(* C5 *)

\* C5: components_are_connect_sparsified (check 7) returns True exactly when
\* every component - of the components list when it is not empty, else of the
\* partitions list - shares a node with the sparsified graph, and for a
\* partitioning with a component that shares none is_valid_partitioning
\* returns False.
C5_ConnectedToSparsified ==
    /\ (Returned /\ Len(trace) = 7) => ((result = TRUE) = Cond7)
    /\ (Returned /\ ~Cond7) => result = FALSE
    /\ (Raised /\ ~Cond7) => (Returned /\ result = FALSE)

----------------------------------------------------------------------------
(* C6 *)

CheckNo(check) ==
    CASE check = "disconnected-sparse" -> 1
      [] check = "disconnected-component" -> 2
      [] check = "node-overlap" -> 3
      [] check = "missing-nodes" -> 4
      [] check = "edge-overlap" -> 5
      [] check = "missing-edges" -> 6
      [] check = "component-disconnected-from-sparse" -> 7

TraceInOrder == trace = [k \in 1 .. Len(trace) |-> k]

\* C6: the checks run in the stated order, and once one failing condition
\* has been found nothing further is evaluated, tagged or reported and False
\* is returned: a call that has reported a failure does not go on and does
\* not end with an exception.
C6_ShortCircuitAsStated ==
    /\ TraceInOrder
    /\ Len(log) <= 1
    /\ \A k \in 1 .. Len(log) : CheckNo(log[k].check) = Len(trace)
    /\ Returned => ((result = FALSE) = (Len(log) = 1))
    /\ Len(log) = 1 => (Rejected \/ pc = "components_plot")

----------------------------------------------------------------------------
(* The bearing strategy (partitioning/bearing.py): values *)

\* the number of bins of the histogram: run, line 62, passes 360
num_bins == 360

\* the enumerated graphs have their bearings in Window neighbouring bins
Window == 6

\* the largest count of one bin among the enumerated histograms
MaxCount == 2

\* Python's None, and a value that is not None
None == {}
Some(x) == {x}
The(opt) == CHOOSE x \in opt : TRUE

\* an edge attribute that an edge does not have / has with value v
Absent == <<>>
Attr(v) == <<v>>

\* Angles are counted in steps of 90 / (2 * num_bins) degrees, the width of
\* a fine bin of np.histogram: the angle k is the bearing of exactly
\* k * 90 / (2 * num_bins) = k / 8 degrees, the left edge of the fine bin k;
\* the angle 0 is the number 0.0.  90 degrees is the angle Ninety.
Ninety == 2 * num_bins

\* a negative bearing so close to 0 that `bear % 90` is 90.0 in floating point
NegEps == 0 - 1

\* the bearings an edge of a small enumerated graph can have: the multiples
\* of 1/8 degree in the first Window bins, the multiples of 90 degrees, and
\* NegEps
Bearings ==
    (0 .. 2 * Window - 1) \cup {Ninety, 2 * Ninety, 3 * Ninety} \cup {NegEps}

\* a slip: the bearing is taken as it is
Mod90_Unfolded(bear) == bear

\* lambda bear: bear % 90, on floats
Mod90(bear) == IF bear = NegEps THEN Ninety ELSE bear % Ninety

\* attribute.new_edge_attribute_by_function(graph, function, "bearing",
\* "bearing_90"): the function applied to the source attribute of every edge
new_edge_attribute_by_function(source) ==
    [e \in DOMAIN source |-> Attr(Mod90(source[e]))]

\* nx.get_edge_attributes: the edges that have the attribute
get_edge_attributes(attr) == {e \in DOMAIN attr : attr[e] # Absent}

----------------------------------------------------------------------------
(* __bin_bearings *)

\* np.histogram with 2 * num_bins equal bins on [0, 90]: every bin is
\* half-open and holds its left edge, the last one holds its right edge 90
\* too
FineBin(b90) == IF b90 >= Ninety THEN Ninety - 1 ELSE b90

\* the members of a set of numbers in ascending order: np.sort(np.unique(...))
RECURSIVE SortedSeq(_)
SortedSeq(S) ==
    IF S = {} THEN <<>>
    ELSE LET least == CHOOSE x \in S : \A y \in S : x <= y
         IN  <<least>> \o SortedSeq(S \ {least})

\* np.roll(count, 1), then count[::2] + count[1::2]: the merged bin that
\* the bearing is counted in
MergedBin(b90) == ((FineBin(b90) + 1) % Ninety) \div 2

\* bin_counts, kept for the bins that hold an edge; every other bin holds 0
bin_counts(b90s) ==
    LET labelled == get_edge_attributes(b90s)
    IN  [m \in {MergedBin(b90s[e][1]) : e \in labelled} |->
            Cardinality({e \in labelled : MergedBin(b90s[e][1]) = m})]

\* bin_counts[k]
Count(x, k) == IF k \in DOMAIN x THEN x[k] ELSE 0

\* bin_edges[range(0, len(bin_edges), 2)]
bin_edges == [k \in 0 .. num_bins |-> 2 * k]

\* the sum of f over the bins in S
RECURSIVE SumOver(_, _)
SumOver(f, S) ==
    IF S = {} THEN 0
    ELSE LET k == CHOOSE m \in S : TRUE
         IN  f[k] + SumOver(f, S \ {k})

\* self._bin_info after __bin_bearings; bin_frequency is count / total, kept
\* as the two integers; bin_edges is the same for every graph
BinInfo(counts) ==
    [num_bins |-> num_bins, bin_count |-> counts,
     total |-> SumOver(counts, DOMAIN counts), peak_props |-> None]

----------------------------------------------------------------------------
(* __find_peaks: scipy.signal.find_peaks(bin_frequency, height = mean,      *)
(* prominence = std, distance = 1)                                          *)

\* the sample after the plateau that starts at i
RECURSIVE PlateauAhead(_, _, _, _)
PlateauAhead(x, n, i, ahead) ==
    IF ahead < n - 1 /\ Count(x, ahead) = Count(x, i)
    THEN PlateauAhead(x, n, i, ahead + 1)
    ELSE ahead

\* the local maxima of x[0 .. n-1]: the middle of every plateau that is higher
\* than both neighbours; the first and the last sample are never one.  A
\* plateau that is higher than its left neighbour starts in a bin that holds
\* an edge.
local_maxima(x, n) ==
    LET starts == {i \in DOMAIN x :
                      /\ 1 <= i /\ i < n - 1
                      /\ Count(x, i - 1) < x[i]
                      /\ Count(x, PlateauAhead(x, n, i, i + 1)) < x[i]}
    IN  SortedSeq({(i + PlateauAhead(x, n, i, i + 1) - 1) \div 2 : i \in starts})

\* walk to the left of the peak while the signal is not higher than it: the
\* lowest sample met, and the place nearest to the peak where it was met; no
\* sample is lower than an empty bin, so the walk is followed up to the first
RECURSIVE LeftBase(_, _, _, _, _)
LeftBase(x, peak, i, min, base) ==
    IF i >= 0 /\ Count(x, i) <= x[peak] /\ min > 0
    THEN IF Count(x, i) < min THEN LeftBase(x, peak, i - 1, Count(x, i), i)
                              ELSE LeftBase(x, peak, i - 1, min, base)
    ELSE [min |-> min, base |-> base]

RECURSIVE RightBase(_, _, _, _, _, _)
RightBase(x, n, peak, i, min, base) ==
    IF i <= n - 1 /\ Count(x, i) <= x[peak] /\ min > 0
    THEN IF Count(x, i) < min THEN RightBase(x, n, peak, i + 1, Count(x, i), i)
                              ELSE RightBase(x, n, peak, i + 1, min, base)
    ELSE [min |-> min, base |-> base]

Max(a, b) == IF a >= b THEN a ELSE b

\* prominence and bases of one peak
peak_prominences(x, n, peak) ==
    LET l == LeftBase(x, peak, peak, x[peak], peak)
        r == RightBase(x, n, peak, peak, x[peak], peak)
    IN  [peak |-> peak, prominence |-> x[peak] - Max(l.min, r.min),
         left_base |-> l.base, right_base |-> r.base]

SeqMap(Op(_), s) == [i \in 1 .. Len(s) |-> Op(s[i])]

\* the peaks of the histogram with their bases.  With f = count / total over
\* the n = 360 bins:
\*   f[p] >= mean(f)         iff  count[p] * n >= total
\*   prominence >= std(f)    iff  (prom * n)^2 >= n * sum(count^2) - total^2
\* distance = int(0.4 * 360 / 90) = 1 removes nothing, local maxima are two
\* samples apart.  A histogram without any bearing is all NaN and has no peak.
find_peaks(info) ==
    LET x == info.bin_count
        n == info.num_bins
        T == info.total
        high(p) == x[p] * n >= T
        squares == [k \in DOMAIN x |-> x[k] * x[k]]
        var == n * SumOver(squares, DOMAIN x) - T * T
        prominent(q) == (q.prominence * n) * (q.prominence * n) >= var
        LP(p) == peak_prominences(x, n, p)
        kept == IF T = 0 THEN <<>>
                ELSE SelectSeq(SeqMap(LP, SelectSeq(local_maxima(x, n), high)),
                               prominent)
    IN  [peak_ind |-> [i \in 1 .. Len(kept) |-> kept[i].peak],
         left_bases |-> [i \in 1 .. Len(kept) |-> kept[i].left_base],
         right_bases |-> [i \in 1 .. Len(kept) |-> kept[i].right_base]]

----------------------------------------------------------------------------
(* Python sets of small non-negative integers, as CPython keeps them: a     *)
(* hash table of 8, 16, 32, ... slots, the hash of an integer being the     *)
(* integer.  The order in which a set is walked is the order of the slots,  *)
(* and the size of the table depends on how the set was built.              *)

\* a slot that holds no key
Unused == 0 - 1

\* a new set: the table of 8 slots
EmptyTable(size) == [slot \in 1 .. size |-> Unused]

\* the members of a set, and the members in the order of iteration
Members(table) == {table[slot] : slot \in 1 .. Len(table)} \ {Unused}
Keys(table) ==
    LET used == {slot \in 1 .. Len(table) : table[slot] # Unused}
    IN  [k \in 1 .. Cardinality(used) |->
            table[CHOOSE slot \in used :
                      Cardinality({h \in used : h < slot}) = k - 1]]

\* the slot, counted from 0, where the key is or will be: slot i and, where
\* the table has room for them, the 9 slots that follow it are looked at,
\* then the search goes on at slot (5 * i + 1 + perturb) modulo the size,
\* perturb being the hash shifted right by 5 bits once more
RECURSIVE Probe(_, _, _, _)
Probe(table, key, i, perturb) ==
    LET last == IF i + 9 <= Len(table) - 1 THEN i + 9 ELSE i
        free == {j \in i .. last : table[j + 1] \in {Unused, key}}
    IN  IF free # {} THEN CHOOSE j \in free : \A h \in free : j <= h
        ELSE Probe(table, key,
                   (i * 5 + 1 + perturb \div 32) % Len(table), perturb \div 32)

\* the keys are put into a table that holds none of them
RECURSIVE InsertAll(_, _, _)
InsertAll(table, keys, k) ==
    IF k > Len(keys) THEN table
    ELSE LET slot == Probe(table, keys[k], keys[k] % Len(table), keys[k])
         IN  InsertAll([table EXCEPT ![slot + 1] = keys[k]], keys, k + 1)

\* the smallest size, 8 doubled, that is greater than minused
RECURSIVE TableSize(_, _)
TableSize(minused, size) ==
    IF size <= minused THEN TableSize(minused, 2 * size) ELSE size

\* the table is replaced by one for minused keys, the keys are put into it in
\* the order of the old slots
set_table_resize(table, minused) ==
    InsertAll(EmptyTable(TableSize(minused, 8)), Keys(table), 1)

\* set.add(key): a table that is three fifths full after the insertion is
\* replaced by one for four times its keys
set_add(table, key) ==
    LET slot == Probe(table, key, key % Len(table), key)
        added == [table EXCEPT ![slot + 1] = key]
        fill == Cardinality(Members(added))
    IN  IF table[slot + 1] = key THEN table
        ELSE IF fill * 5 < (Len(table) - 1) * 3 THEN added
        ELSE set_table_resize(added, fill * 4)

RECURSIVE AddAll(_, _, _)
AddAll(table, keys, k) ==
    IF k > Len(keys) THEN table
    ELSE AddAll(set_add(table, keys[k]), keys, k + 1)

\* the set display {a, b, ...}: the items are added to a new set in the
\* order written
PySet(items) == AddAll(EmptyTable(8), items, 1)

\* set.update(other) for a set other: the table is resized once at the
\* start if the keys of both would fill three fifths of it; an empty table
\* of the size of other's becomes a copy of it, slot by slot
set_merge(table, other) ==
    LET used == Cardinality(Members(table))
        more == Cardinality(Members(other))
        grown == IF (used + more) * 5 >= (Len(table) - 1) * 3
                 THEN set_table_resize(table, (used + more) * 2)
                 ELSE table
    IN  IF more = 0 THEN table
        ELSE IF used = 0 /\ Len(grown) = Len(other) THEN other
        ELSE IF used = 0 THEN InsertAll(grown, Keys(other), 1)
        ELSE AddAll(grown, Keys(other), 1)

\* group | group2: a copy of group, updated with group2
set_or(table, other) == set_merge(set_merge(EmptyTable(8), table), other)

----------------------------------------------------------------------------
(* merge_sets and group_overlapping_intervals.  Python lists are sequences, *)
(* a Python index k is the place k + 1 of the sequence.                     *)

\* list.pop(j)
Pop(list, j) ==
    [k \in 1 .. Len(list) - 1 |-> IF k < j + 1 THEN list[k] ELSE list[k + 1]]

\* the two nested loops of merge_sets over the list they change: `group` is
\* the set the outer loop was handed, both loops go on by position
RECURSIVE MergeSetsOuter(_, _)
RECURSIVE MergeSetsInner(_, _, _, _)
MergeSetsOuter(sets, i) ==
    IF i >= Len(sets) THEN [err |-> "none", sets |-> sets]
    ELSE MergeSetsInner(sets, i, sets[i + 1], 0)
MergeSetsInner(sets, i, group, j) ==
    IF j >= Len(sets) THEN MergeSetsOuter(sets, i + 1)
    ELSE IF i # j /\ (Members(group) \cap Members(sets[j + 1])) # {}
         THEN IF i >= Len(sets)
              THEN [err |-> "IndexError", sets |-> sets]
              ELSE MergeSetsInner(
                       Pop([sets EXCEPT ![i + 1] = set_or(group, sets[j + 1])],
                           j),
                       i, group, j + 1)
         ELSE MergeSetsInner(sets, i, group, j + 1)

merge_sets(sets) == MergeSetsOuter(sets, 0)

\* np.triu(mask, k=1).nonzero(): the pairs i < j of overlapping intervals,
\* row by row
RECURSIVE Overlaps(_, _, _, _)
Overlaps(left_bases, right_bases, i, j) ==
    IF i >= Len(left_bases) THEN <<>>
    ELSE IF j >= Len(left_bases)
         THEN Overlaps(left_bases, right_bases, i + 1, i + 2)
         ELSE (IF /\ left_bases[j + 1] < right_bases[i + 1]
                  /\ right_bases[j + 1] > left_bases[i + 1]
               THEN <<<<i, j>>>> ELSE <<>>)
              \o Overlaps(left_bases, right_bases, i, j + 1)

\* one pair is added to the first group that holds one of its two members
RECURSIVE AddToGroups(_, _, _, _)
AddToGroups(overlap_groups, group_1, group_2, k) ==
    IF k >= Len(overlap_groups)
    THEN Append(overlap_groups, PySet(<<group_1, group_2>>))
    ELSE IF group_1 \in Members(overlap_groups[k + 1])
         THEN [overlap_groups EXCEPT ![k + 1] = set_add(@, group_2)]
         ELSE IF group_2 \in Members(overlap_groups[k + 1])
              THEN [overlap_groups EXCEPT ![k + 1] = set_add(@, group_1)]
              ELSE AddToGroups(overlap_groups, group_1, group_2, k + 1)

RECURSIVE GroupPairs(_, _, _)
GroupPairs(pairs, k, overlap_groups) ==
    IF k > Len(pairs) THEN overlap_groups
    ELSE GroupPairs(pairs, k + 1,
                    AddToGroups(overlap_groups, pairs[k][1], pairs[k][2], 0))

group_overlapping_intervals(left_bases, right_bases) ==
    merge_sets(GroupPairs(Overlaps(left_bases, right_bases, 0, 1), 1, <<>>))

----------------------------------------------------------------------------
(* __make_boundaries *)

Last(list) == list[Len(list)]

\* lines 203-214: two peaks with the same pair of bases
IdenticalBases(left_bases, right_bases) ==
    \E i, j \in 1 .. Len(left_bases) :
        /\ i # j
        /\ left_bases[i] = left_bases[j]
        /\ right_bases[i] = right_bases[j]

\* lines 230-234: the i-th member of a group gets the i-th pair of
\* neighbouring borders of the group
RECURSIVE SplitGroup(_, _, _, _, _)
SplitGroup(base_vals, edges, members, borders, i) ==
    IF i >= Len(members) THEN [err |-> "none", base_vals |-> base_vals]
    ELSE IF i + 1 >= Len(borders)
         THEN [err |-> "IndexError", base_vals |-> base_vals]
         ELSE SplitGroup(
                  [base_vals EXCEPT ![members[i + 1] + 1] =
                       <<edges[borders[i + 1]], edges[borders[i + 2]]>>],
                  edges, members, borders, i + 1)

\* lines 225-234: every group of overlapping intervals in turn
RECURSIVE SplitGroups(_, _, _, _, _, _)
SplitGroups(base_vals, edges, left_bases, right_bases, groups, k) ==
    IF k > Len(groups) THEN [err |-> "none", base_vals |-> base_vals]
    ELSE LET group == Members(groups[k])
             borders == SortedSeq({left_bases[g + 1] : g \in group}
                                  \cup {right_bases[g + 1] : g \in group})
             split == SplitGroup(base_vals, edges, Keys(groups[k]),
                                 borders, 0)
         IN  IF split.err # "none" THEN split
             ELSE SplitGroups(split.base_vals, edges, left_bases, right_bases,
                              groups, k + 1)

\* the peaks strictly inside an interval, as angles
PeaksInside(ab, edges, peak_ind) ==
    LET inside(peak_i) == ab[1] < edges[peak_i] /\ edges[peak_i] < ab[2]
    IN  SeqMap(LAMBDA peak_i : edges[peak_i], SelectSeq(peak_ind, inside))

\* lines 236-243: the dict from interval to the first peak inside it; a key
\* met again keeps its place
RECURSIVE BaseValsDict(_, _, _, _, _)
BaseValsDict(base_vals, edges, peak_ind, k, items) ==
    IF k > Len(base_vals) THEN [err |-> "none", items |-> items]
    ELSE LET ab == base_vals[k]
             inside == PeaksInside(ab, edges, peak_ind)
         IN  IF inside = <<>> THEN [err |-> "IndexError", items |-> items]
             ELSE BaseValsDict(base_vals, edges, peak_ind, k + 1,
                      IF \E m \in 1 .. Len(items) : items[m].ab = ab
                      THEN items
                      ELSE Append(items, [ab |-> ab, value |-> Some(inside[1])]))

\* lines 246-258: intervals that touch share a boundary, a gap between two
\* intervals is an interval without a center value
RECURSIVE Tile(_, _, _, _)
Tile(items, k, boundaries, center_values) ==
    IF k > Len(items)
    THEN [boundaries |-> boundaries, center_values |-> center_values]
    ELSE IF Last(boundaries) = items[k].ab[1]
         THEN Tile(items, k + 1, Append(boundaries, items[k].ab[2]),
                   SubSeq(center_values, 1, Len(center_values) - 1)
                       \o <<items[k].value, None>>)
         ELSE Tile(items, k + 1, boundaries \o items[k].ab,
                   center_values \o <<items[k].value, None>>)

\* lines 259-262: the last interval ends at 90
CloseAtNinety(tiles) ==
    IF Last(tiles.boundaries) = Ninety
    THEN [boundaries |-> tiles.boundaries,
          center_values |-> SubSeq(tiles.center_values, 1,
                                   Len(tiles.center_values) - 1)]
    ELSE [boundaries |-> Append(tiles.boundaries, Ninety),
          center_values |-> tiles.center_values]

\* self._inter_vals == {}
NoInterVals == [base_vals |-> None, boundaries |-> None, center_values |-> None]

\* base_vals while it is still a list of intervals
AsList(base_vals) == [k \in 1 .. Len(base_vals) |-> [ab |-> base_vals[k], value |-> None]]

\* __make_boundaries on the peaks of info: the exception it ends with, and
\* self._inter_vals as it leaves it (inter is self._inter_vals before)
make_boundaries(info, inter) ==
    LET props == The(info.peak_props)
        left_bases == props.left_bases
        right_bases == props.right_bases
        edges == bin_edges
        overlap_groups == group_overlapping_intervals(left_bases, right_bases)
        base_vals == [i \in 1 .. Len(left_bases) |->
                         <<edges[left_bases[i]], edges[right_bases[i]]>>]
        split == SplitGroups(base_vals, edges, left_bases, right_bases,
                             overlap_groups.sets, 1)
        dict == BaseValsDict(split.base_vals, edges, props.peak_ind, 1, <<>>)
        tiles == CloseAtNinety(Tile(dict.items, 1, <<0>>, <<None>>))
    IN  IF overlap_groups.err # "none"
        THEN [err |-> overlap_groups.err, inter_vals |-> inter]
        ELSE IF IdenticalBases(left_bases, right_bases)
        THEN [err |-> "ValueError", inter_vals |-> inter]
        ELSE IF split.err # "none"
        THEN [err |-> split.err,
              inter_vals |-> [inter EXCEPT !.base_vals = Some(AsList(split.base_vals))]]
        ELSE IF dict.err # "none"
        THEN [err |-> dict.err,
              inter_vals |-> [inter EXCEPT !.base_vals = Some(AsList(split.base_vals))]]
        ELSE [err |-> "none",
              inter_vals |-> [base_vals |-> Some(dict.items),
                              boundaries |-> Some(tiles.boundaries),
                              center_values |-> Some(tiles.center_values)]]

----------------------------------------------------------------------------
(* run, lines 79-98: labels and the partition list *)

\* bisect.bisect_right(a, x)
RECURSIVE Bisect(_, _, _, _)
Bisect(a, x, lo, hi) ==
    IF lo < hi
    THEN LET mid == (lo + hi) \div 2
         IN  IF x < a[mid + 1] THEN Bisect(a, x, lo, mid)
                               ELSE Bisect(a, x, mid + 1, hi)
    ELSE lo
bisect_right(a, x) == Bisect(a, x, 0, Len(a))

\* list[k] for a Python index k, negative ones counted from the end:
\* None when there is no such item (IndexError)
Item(list, k) ==
    LET place == IF k < 0 THEN Len(list) + k + 1 ELSE k + 1
    IN  IF place \in 1 .. Len(list) THEN Some(list[place]) ELSE None

\* lines 86-87 for one edge: None when the lookup raises IndexError
GroupOf(inter, b90) ==
    Item(The(inter.center_values), bisect_right(The(inter.boundaries), b90) - 1)

\* lines 81-88: the loop over the edges that have bearing_90, and the edge
\* attribute as nx.set_edge_attributes would write it after the loop
group_bearing(inter, b90s, groups) ==
    LET labelled == get_edge_attributes(b90s)
    IN  [err |-> IF \E e \in labelled : GroupOf(inter, b90s[e][1]) = None
                 THEN "IndexError" ELSE "none",
         attr |-> [e \in DOMAIN groups |->
                      IF e \in labelled /\ GroupOf(inter, b90s[e][1]) # None
                      THEN Attr(The(GroupOf(inter, b90s[e][1])))
                      ELSE groups[e]]]

\* str(boundaries[i : i + 2])
IntervalName(boundaries, i) ==
    ToString(SubSeq(boundaries, i + 1, IF i + 2 <= Len(boundaries)
                                       THEN i + 2 ELSE Len(boundaries)))

\* lines 91-98
partition_list(inter) ==
    LET center_values == The(inter.center_values)
        named == [i \in 1 .. Len(center_values) |->
                     [name |-> IntervalName(The(inter.boundaries), i - 1),
                      value |-> center_values[i], subgraph |-> None]]
    IN  SelectSeq(named, LAMBDA part : part.value # None)

\* attribute.get_edge_subgraph_with_attribute_value: the subgraph of the
\* edges whose attribute has the value; ValueError when there is none
get_edge_subgraph_with_attribute_value(attr, value) ==
    LET edges == {e \in get_edge_attributes(attr) : attr[e][1] = value}
    IN  [err |-> IF edges = {} THEN "ValueError" ELSE "none", graph |-> edges]

\* partitioner.py lines 82-86: the loop over the parts from the k-th on; the
\* first exception ends it, the parts before keep their subgraph
RECURSIVE make_subgraphs(_, _, _)
make_subgraphs(parts, attr, k) ==
    IF k > Len(parts) THEN [err |-> "none", parts |-> parts]
    ELSE LET sub == get_edge_subgraph_with_attribute_value(attr, parts[k].value)
         IN  IF sub.err # "none" THEN [err |-> sub.err, parts |-> parts]
             ELSE make_subgraphs([parts EXCEPT ![k].subgraph = Some(sub.graph)],
                                 attr, k + 1)

\* numpy.amin and numpy.amax of a list that is not empty
amin(values) == CHOOSE x \in values : \A y \in values : x <= y
amax(values) == CHOOSE x \in values : \A y \in values : x >= y

\* plot.py line 179 and line 182, `[v for v in ... if v]`: the values of the
\* attribute that are truthy, neither None nor 0
Truthy(values) == {The(v) : v \in {w \in values : w # None /\ w # Some(0)}}

\* plot.determine_minmax_val(graph, minmax_val, attr), lines 176-196.  values
\* are the values of the attribute on the edges that have it, minmax_val is
\* None or Some(<<lo, hi>>), each bound None or Some(number).  The result is
\* [err, val]: the exception, or "none" and the pair returned.
determine_minmax_val(values, minmax_val) ==
    LET given == The(minmax_val)
        looked_up == \/ minmax_val = None
                     \/ given[1] = None
                     \/ given[2] = None
        minmax == <<Some(amin(Truthy(values))), Some(amax(Truthy(values)))>>
        replaced == IF ~looked_up THEN given
                    ELSE IF minmax_val = None THEN minmax
                    ELSE IF given[1] = None THEN <<minmax[1], given[2]>>
                    ELSE <<given[1], minmax[2]>>
    IN  IF looked_up /\ Truthy(values) = {}
        THEN [err |-> "ValueError", val |-> <<>>]
        ELSE IF replaced[1] = None \/ replaced[2] = None
        THEN [err |-> "TypeError", val |-> <<>>]
        ELSE IF The(replaced[1]) >= The(replaced[2])
        THEN [err |-> "ValueError", val |-> <<>>]
        ELSE [err |-> "none", val |-> <<The(replaced[1]), The(replaced[2])>>]

----------------------------------------------------------------------------
(* The graphs a BearingPartitioner is constructed with: the list of the     *)
(* bearings of their edges                                                  *)

\* every graph of two edges, the bearings in ascending order
SmallGraphs == {g \in [{1, 2} -> Bearings] : g[1] <= g[2]}

\* no edge at all
EmptyGraph == <<>>

\* four edges that point north, east, south and west
FourWayGraph == <<0, Ninety, 2 * Ninety, 3 * Ninety>>

\* histogram 0 2 1 2 0: two peaks that have the same bases
IdenticalBasesGraph == <<2, 2, 4, 6, 6>>

\* histogram 1 2 1 2 0: two peaks whose intervals overlap
OverlapGraph == <<0, 2, 2, 4, 6, 6>>

\* histogram 0 2 0 2 1: two peaks, one edge away from IdenticalBasesGraph
NearIdenticalGraph == <<2, 2, 6, 6, 8>>

\* the bearings of a full circle are those of a quarter, turned 0 to 3 times
QuarterTurns == 4

\* two bearings that differ by a multiple of 90 degrees; NegEps, which is no
\* multiple of the angle unit, is equivalent to itself alone
EquivalentMod90(b1, b2) ==
    \/ b1 = b2
    \/ NegEps \notin {b1, b2} /\ (b1 - b2) % Ninety = 0

\* as many edges as FourWayGraph, all with the same bearing up to quarter
\* turns: a bearing of the first or of the last Window bins, or NegEps
EquivalentGraphs ==
    {[e \in DOMAIN FourWayGraph |-> b + turn[e] * Ninety] :
        b \in (0 .. 2 * Window - 1) \cup (Ninety - 2 * Window .. Ninety - 1),
        turn \in [DOMAIN FourWayGraph -> 0 .. QuarterTurns - 1]}
    \cup {[e \in DOMAIN FourWayGraph |-> NegEps]}

BearingGraphs ==
    SmallGraphs \cup {EmptyGraph, FourWayGraph, IdenticalBasesGraph,
                      NearIdenticalGraph, OverlapGraph}

\* the graph with a given histogram: count[m] edges in the middle of the
\* bin first + m, for the bins up to first + last
RECURSIVE HistogramGraph(_, _, _)
HistogramGraph(count, first, last) ==
    IF last < 0 THEN <<>>
    ELSE HistogramGraph(count, first, last - 1)
             \o [k \in 1 .. count[last] |-> 2 * (first + last)]

\* every histogram over the first Window bins, and over the last
HistogramGraphs ==
    {HistogramGraph(count, first, Window - 1) :
        count \in [0 .. Window - 1 -> 0 .. MaxCount],
        first \in {0, num_bins - Window}}

\* histogram 0 1 0 1 0 1 0 1 0 1 0 1 0 1 0 1 2 1 3 0 0: seven peaks that
\* stand alone, and an eighth and a ninth whose intervals overlap
NinePeaksGraph ==
    LET count == <<0, 1, 0, 1, 0, 1, 0, 1, 0, 1, 0, 1, 0, 1, 0, 1, 2, 1, 3>>
    IN  HistogramGraph([m \in 0 .. Len(count) - 1 |-> count[m + 1]], 0,
                       Len(count) - 1)

----------------------------------------------------------------------------
(* The partitioner: construction, run, and the calls that need a run *)

\* what a failed run is expected to leave alone
Fields ==
    [partition |-> partition, attribute_label |-> attribute_label,
     inter_vals |-> inter_vals, bearing_group |-> bearing_group]

\* BasePartitioner.__init__ and BearingPartitioner.__init__ on the graph g
PartitionerInit(g) ==
    /\ bearing = g
    /\ bearing_90 = [e \in DOMAIN g |-> Absent]
    /\ bearing_group = [e \in DOMAIN g |-> Absent]
    /\ bin_info = None
    /\ inter_vals = NoInterVals
    /\ partition = None
    /\ attribute_label = None
    /\ rpc = "idle"
    /\ last_call = "__init__"
    /\ raised = "none"
    /\ entry = [partition |-> None, attribute_label |-> None,
                inter_vals |-> NoInterVals,
                bearing_group |-> [e \in DOMAIN g |-> Absent]]
    /\ ran_ok = FALSE
    /\ edited = FALSE

\* an exception leaves the method
Raise(exception) ==
    /\ rpc' = "idle"
    /\ raised' = exception

\* run, line 62: __bin_bearings(num_bins=360)
RunBinBearings ==
    /\ rpc = "idle"
    /\ entry' = Fields
    /\ last_call' = "run"
    /\ raised' = "none"
    /\ LET b90s == new_edge_attribute_by_function(bearing)
       IN  /\ bearing_90' = b90s
           /\ bin_info' = Some(BinInfo(bin_counts(b90s)))
    /\ rpc' = "find_peaks"
    /\ UNCHANGED <<bearing, bearing_group, inter_vals, partition,
                   attribute_label, ran_ok, edited>>
    /\ UNCHANGED exceptPartitioner

\* a slip: a single peak counts as none
no_peaks_BelowTwo(props) == Len(props.peak_ind) < 2

\* run, line 67
no_peaks(props) == Len(props.peak_ind) < 1

\* run, lines 65-68: __find_peaks, and the ArithmeticError without a peak
RunFindPeaks ==
    /\ rpc = "find_peaks"
    /\ LET props == find_peaks(The(bin_info))
       IN  /\ bin_info' = Some([The(bin_info) EXCEPT !.peak_props = Some(props)])
           /\ IF no_peaks(props)
              THEN Raise("ArithmeticError")
              ELSE rpc' = "make_boundaries" /\ UNCHANGED raised
    /\ UNCHANGED <<bearing, bearing_90, bearing_group, inter_vals, partition,
                   attribute_label, last_call, entry, ran_ok, edited>>
    /\ UNCHANGED exceptPartitioner

\* run, line 74: __make_boundaries
RunMakeBoundaries ==
    /\ rpc = "make_boundaries"
    /\ LET made == make_boundaries(The(bin_info), inter_vals)
       IN  /\ inter_vals' = made.inter_vals
           /\ IF made.err # "none"
              THEN Raise(made.err)
              ELSE rpc' = "set_attribute_label" /\ UNCHANGED raised
    /\ UNCHANGED <<bearing, bearing_90, bearing_group, bin_info, partition,
                   attribute_label, last_call, entry, ran_ok, edited>>
    /\ UNCHANGED exceptPartitioner

\* run, line 80
RunSetAttributeLabel ==
    /\ rpc = "set_attribute_label"
    /\ attribute_label' = Some("bearing_group")
    /\ rpc' = "write_groups"
    /\ UNCHANGED <<bearing, bearing_90, bearing_group, bin_info, inter_vals,
                   partition, last_call, raised, entry, ran_ok, edited>>
    /\ UNCHANGED exceptPartitioner

\* run, lines 81-88: the label of every edge is looked up, then all are written
RunWriteGroups ==
    /\ rpc = "write_groups"
    /\ LET groups == group_bearing(inter_vals, bearing_90, bearing_group)
       IN  IF groups.err # "none"
           THEN Raise(groups.err) /\ UNCHANGED bearing_group
           ELSE /\ bearing_group' = groups.attr
                /\ rpc' = "write_partition"
                /\ UNCHANGED raised
    /\ UNCHANGED <<bearing, bearing_90, bin_info, inter_vals, partition,
                   attribute_label, last_call, entry, ran_ok, edited>>
    /\ UNCHANGED exceptPartitioner

\* run, lines 91-98
RunWritePartition ==
    /\ rpc = "write_partition"
    /\ partition' = Some(partition_list(inter_vals))
    /\ rpc' = "idle"
    /\ ran_ok' = TRUE
    /\ UNCHANGED <<bearing, bearing_90, bearing_group, bin_info, inter_vals,
                   attribute_label, last_call, raised, entry, edited>>
    /\ UNCHANGED exceptPartitioner

RunNext ==
    \/ RunBinBearings
    \/ RunFindPeaks
    \/ RunMakeBoundaries
    \/ RunSetAttributeLabel
    \/ RunWriteGroups
    \/ RunWritePartition

\* a slip: attribute_label is not looked at
check_has_been_runned_PartitionOnly(part, label) ==
    IF part = None THEN "AssertionError" ELSE "none"

\* __check_has_been_runned: the exception it raises
check_has_been_runned(part, label) ==
    IF part = None THEN "AssertionError"
    ELSE IF label = None THEN "AssertionError"
    ELSE "none"

\* plot_partition_graph: the guard, then plot_by_attribute, which fails in
\* determine_minmax_val unless the labels differ
PlotPartitionGraph ==
    /\ rpc = "idle"
    /\ last_call' = "plot_partition_graph"
    /\ raised' = IF check_has_been_runned(partition, attribute_label) # "none"
                 THEN check_has_been_runned(partition, attribute_label)
                 ELSE determine_minmax_val(
                          {bearing_group[e][1] :
                               e \in get_edge_attributes(bearing_group)},
                          None).err
    /\ UNCHANGED <<bearing, bearing_90, bearing_group, bin_info, inter_vals,
                   partition, attribute_label, rpc, entry, ran_ok, edited>>
    /\ UNCHANGED exceptPartitioner

\* make_subgraphs_from_attribute: the guard, then a subgraph for every part
MakeSubgraphsFromAttribute ==
    /\ rpc = "idle"
    /\ last_call' = "make_subgraphs_from_attribute"
    /\ IF check_has_been_runned(partition, attribute_label) # "none"
       THEN /\ raised' = check_has_been_runned(partition, attribute_label)
            /\ UNCHANGED partition
       ELSE LET made == make_subgraphs(The(partition), bearing_group, 1)
            IN  /\ raised' = made.err
                /\ partition' = Some(made.parts)
    /\ UNCHANGED <<bearing, bearing_90, bearing_group, bin_info, inter_vals,
                   attribute_label, rpc, entry, ran_ok, edited>>
    /\ UNCHANGED exceptPartitioner

\* the caller sets partitioner.attribute_label = None
ResetAttributeLabel ==
    /\ rpc = "idle"
    /\ attribute_label # None
    /\ attribute_label' = None
    /\ last_call' = "reset"
    /\ raised' = "none"
    /\ UNCHANGED <<bearing, bearing_90, bearing_group, bin_info, inter_vals,
                   partition, rpc, entry, ran_ok, edited>>
    /\ UNCHANGED exceptPartitioner

\* the caller sets partitioner.partition = None
ResetPartition ==
    /\ rpc = "idle"
    /\ partition # None
    /\ partition' = None
    /\ last_call' = "reset"
    /\ raised' = "none"
    /\ UNCHANGED <<bearing, bearing_90, bearing_group, bin_info, inter_vals,
                   attribute_label, rpc, entry, ran_ok, edited>>
    /\ UNCHANGED exceptPartitioner

\* the bearings the caller changes an edge to: one for every bin of the
\* window, the multiples of 90 degrees, and NegEps
EditedBearings == {b \in Bearings : b % 2 = 0 \/ b = NegEps}

\* the caller, who owns the graph, changes the bearing of one edge between
\* two runs; once
EditBearing ==
    /\ rpc = "idle"
    /\ last_call = "run"
    /\ ~edited
    /\ \E e \in DOMAIN bearing, b \in EditedBearings :
           /\ b # bearing[e]
           /\ bearing' = [bearing EXCEPT ![e] = b]
    /\ edited' = TRUE
    /\ last_call' = "edit"
    /\ raised' = "none"
    /\ UNCHANGED <<bearing_90, bearing_group, bin_info, inter_vals, partition,
                   attribute_label, rpc, entry, ran_ok>>
    /\ UNCHANGED exceptPartitioner

\* plot.paint_streets(partitioner.graph), plot.py lines 42-50: the graph has
\* bearings, bearing_90 is written anew, and plot_by_attribute fails in
\* determine_minmax_val unless two of the values that are not 0.0 differ
PaintStreets ==
    /\ rpc = "idle"
    /\ DOMAIN bearing # {}
    /\ last_call' = "paint_streets"
    /\ LET b90s == new_edge_attribute_by_function(bearing)
       IN  /\ bearing_90' = b90s
           /\ raised' = determine_minmax_val(
                            {Some(b90s[e][1]) : e \in get_edge_attributes(b90s)},
                            None).err
    /\ UNCHANGED <<bearing, bearing_group, bin_info, inter_vals, partition,
                   attribute_label, rpc, entry, ran_ok, edited>>
    /\ UNCHANGED exceptPartitioner

PartitionerNext ==
    \/ RunNext
    \/ PaintStreets
    \/ PlotPartitionGraph
    \/ MakeSubgraphsFromAttribute
    \/ ResetAttributeLabel
    \/ ResetPartition
    \/ EditBearing

\* the checker's variables while no partitioning is checked
CheckerUnused ==
    /\ graph = PathGraph
    /\ components = <<>>
    /\ partitions = <<>>
    /\ sparsified = {}
    /\ pc = "unused"
    /\ ci = 0
    /\ found = TRUE
    /\ trace = <<>>
    /\ log = <<>>
    /\ highlight = [e \in PathGraph.edges |-> NoAttr]
    /\ missing_nodes = [n \in PathGraph.nodes |-> NoAttr]
    /\ result = "none"
    /\ derived = FALSE

\* the partitioner's variables while no partitioner is used
PartitionerUnused == PartitionerInit(EmptyGraph)

----------------------------------------------------------------------------
(* merge_sets and group_overlapping_intervals called on their own *)

\* the longest list of sets, and the longest arrays of bases, enumerated
MaxSets == 4

\* the sets hold elements 1 .. MaxElem, the bases are 0 .. MaxElem + 1
MaxElem == 3

\* every list of at most longest sets
SetLists(longest) ==
    UNION {[1 .. n -> SUBSET (1 .. MaxElem)] : n \in 0 .. longest}

\* every pair of arrays of at most longest bases, a left base below its right
BaseArrays(longest) ==
    UNION {{[left_bases |-> [k \in 1 .. n |-> lr[k][1]],
             right_bases |-> [k \in 1 .. n |-> lr[k][2]]] :
               lr \in [1 .. n -> {b \in (0 .. MaxElem + 1) \X (0 .. MaxElem + 1) :
                                     b[1] < b[2]}]} :
           n \in 0 .. longest}

\* the sets of a list of Python sets
SetsOf(list) == [k \in DOMAIN list |-> Members(list[k])]

\* no call was made yet; bases is None when merge_sets is called directly
MergeInit(bases, sets) ==
    /\ ms_bases = bases
    /\ ms_sets = sets
    /\ ms_once = None
    /\ ms_twice = None
    /\ ms_pc = "start"

MergeUnused == MergeInit(None, <<>>)

\* merge_sets(sets)
MergeSets ==
    /\ ms_pc = "start"
    /\ ms_bases = None
    /\ ms_once' = Some(merge_sets(
                        [k \in DOMAIN ms_sets |-> PySet(SortedSeq(ms_sets[k]))]))
    /\ ms_pc' = "once"
    /\ UNCHANGED <<ms_bases, ms_sets, ms_twice>>
    /\ UNCHANGED exceptMerge

\* group_overlapping_intervals(left_bases, right_bases): the groups of the
\* loop at lines 318-333 are the list that merge_sets is handed at line 336
GroupOverlappingIntervals ==
    /\ ms_pc = "start"
    /\ ms_bases # None
    /\ ms_sets' = SetsOf(GroupPairs(Overlaps(The(ms_bases).left_bases,
                                             The(ms_bases).right_bases, 0, 1),
                                    1, <<>>))
    /\ ms_once' = Some(group_overlapping_intervals(The(ms_bases).left_bases,
                                                   The(ms_bases).right_bases))
    /\ ms_pc' = "once"
    /\ UNCHANGED <<ms_bases, ms_twice>>
    /\ UNCHANGED exceptMerge

\* merge_sets on the list that the first call returned
MergeSetsAgain ==
    /\ ms_pc = "once"
    /\ The(ms_once).err = "none"
    /\ ms_twice' = Some(merge_sets(The(ms_once).sets))
    /\ ms_pc' = "twice"
    /\ UNCHANGED <<ms_bases, ms_sets, ms_once>>
    /\ UNCHANGED exceptMerge

MergeNext ==
    \/ MergeSets
    \/ GroupOverlappingIntervals
    \/ MergeSetsAgain

----------------------------------------------------------------------------
(* The Metric (metrics/metric.py): values *)

\* A Python dict is the list of its items in insertion order.
DictKeys(dict) == [k \in 1 .. Len(dict) |-> dict[k].key]
DictHas(dict, key) == \E k \in 1 .. Len(dict) : dict[k].key = key
DictGet(dict, key) ==
    dict[CHOOSE k \in 1 .. Len(dict) : dict[k].key = key].value

\* dict[key] = value: an item keeps its place, a new key goes to the end
DictSet(dict, key, value) ==
    IF DictHas(dict, key)
    THEN [k \in 1 .. Len(dict) |->
             IF dict[k].key = key THEN [key |-> key, value |-> value]
                                  ELSE dict[k]]
    ELSE Append(dict, [key |-> key, value |-> value])

\* {key: None for key in keys}
NoneDict(keys) == [k \in 1 .. Len(keys) |-> [key |-> keys[k], value |-> None]]

\* the units a Metric is constructed with: "time" (the default), "distance",
\* None for hops, and a custom edge attribute
Units == {Some("time"), Some("distance"), None, Some("weight")}

\* Metric.__init__(unit), lines 105-128: self.__dict__ with its attributes
\* in the order they are assigned
Metric__init__(unit) ==
    [coverage |-> None,
     num_components |-> None,
     avg_path_length |-> NoneDict(<<"S", "N">>),
     directness |-> NoneDict(<<"SN">>),
     global_efficiency |-> NoneDict(<<"NS">>),
     high_bc_clustering |-> None,
     high_bc_anisotropy |-> None,
     distance_matrix |-> <<>>,
     predecessor_matrix |-> <<>>,
     unit |-> unit,
     node_list |-> None]

\* the keys of self.__dict__ in insertion order
DictOrder ==
    <<"coverage", "num_components", "avg_path_length", "directness",
      "global_efficiency", "high_bc_clustering", "high_bc_anisotropy",
      "distance_matrix", "predecessor_matrix", "unit", "node_list">>

\* the attributes whose value is a dict; their items hold None or a value
DictAttributes ==
    {"avg_path_length", "directness", "global_efficiency", "distance_matrix",
     "predecessor_matrix"}

\* str of a list from its k-th item on: "[1, 2, 3]", and "[]" for the empty
\* list
RECURSIVE ListStr(_, _)
ListStr(list, k) ==
    (IF k = 1 THEN "[" ELSE "")
        \o (IF k > Len(list) THEN "]"
            ELSE (IF k = 1 THEN "" ELSE ", ") \o ToString(list[k])
                     \o ListStr(list, k + 1))

\* f"{value}" for the value of an attribute or of an item of it: a number,
\* the unit string or None, the list of nodes; a matrix is printed as the
\* node order it was computed with
Format(key, value) ==
    IF value = None THEN "None"
    ELSE IF key = "unit" THEN The(value)
    ELSE IF key = "node_list" THEN ListStr(The(value), 1)
    ELSE IF key \in {"distance_matrix", "predecessor_matrix"}
         THEN ListStr(The(value).node_order, 1)
    ELSE ToString(The(value))

----------------------------------------------------------------------------
(* Metric.__str__ and Metric.__repr__ *)

\* the inner loop of __str__ over the items of a dict attribute
RECURSIVE StrItems(_, _, _, _)
StrItems(string, key, dict, k) ==
    IF k > Len(dict) THEN string
    ELSE StrItems(IF dict[k].value # None
                  THEN string \o dict[k].key \o ": "
                           \o Format(key, dict[k].value) \o ", "
                  ELSE string,
                  key, dict, k + 1)

\* value is None, for the value of an attribute: a dict attribute holds a
\* dict in every state of the model
IsNone(key, value) == key \notin DictAttributes /\ value = None

\* __str__, line 418: the unit is listed also when it is None
Listed(key, value) == ~IsNone(key, value) \/ key = "unit"

\* the loop of __str__ over self.__dict__, from the k-th attribute on
RECURSIVE StrAttributes(_, _, _)
StrAttributes(string, self, k) ==
    IF k > Len(DictOrder) THEN string
    ELSE LET key == DictOrder[k]
             value == self[key]
         IN  StrAttributes(
                 IF ~Listed(key, value) THEN string
                 ELSE IF key \in DictAttributes
                      THEN IF \A i \in 1 .. Len(value) : value[i].value = None
                           THEN string
                           ELSE LET items == StrItems(string \o key \o ": ",
                                                      key, value, 1)
                                IN  SubSeq(items, 1, Len(items) - 2) \o "; "
                      ELSE string \o key \o ": " \o Format(key, value) \o "; ",
                 self, k + 1)

\* Metric.__str__
Metric__str__(self) == StrAttributes("", self, 1)

\* Metric.__repr__
Metric__repr__(self) == "Metric" \o "(" \o Metric__str__(self) \o ")"

----------------------------------------------------------------------------
(* The Metric and its callers *)

\* the name a Metric is saved under, and config.RESULTS_DIR
Names == {"a"}
RESULTS_DIR == "results"

\* the path starts, resp. ends, with the separator
StartsWithSep(path) == Len(path) > 0 /\ SubSeq(path, 1, 1) = "/"
EndsWithSep(path) == Len(path) > 0 /\ SubSeq(path, Len(path), Len(path)) = "/"

\* os.path.join(folder, name) of posixpath: an absolute name replaces the
\* folder, and the separator is put between the two unless the folder is
\* empty or ends with it
join(folder, name) ==
    IF StartsWithSep(name) THEN name
    ELSE IF folder = "" \/ EndsWithSep(folder) THEN folder \o name
    ELSE folder \o "/" \o name

\* the place of the last separator of path[1 .. k], 0 when there is none
RECURSIVE LastSep(_, _)
LastSep(path, k) ==
    IF k = 0 THEN 0
    ELSE IF SubSeq(path, k, k) = "/" THEN k
    ELSE LastSep(path, k - 1)

\* path without the separators at its end; a path of separators only is kept
RECURSIVE StripSeps(_, _)
StripSeps(path, k) ==
    IF k = 0 THEN path
    ELSE IF SubSeq(path, k, k) = "/" THEN StripSeps(path, k - 1)
    ELSE SubSeq(path, 1, k)

\* os.path.dirname(path): the directory that open looks the file up in
dirname(path) ==
    LET head == SubSeq(path, 1, LastSep(path, Len(path)))
    IN  StripSeps(head, Len(head))

\* the folders handed to save: the results folder of every name, another
\* folder with and without the separator at its end, and the working
\* directory
Folders == {join(RESULTS_DIR, name) : name \in Names} \cup {"tmp", "tmp/", ""}

\* the paths of the files
Paths == {join(folder, name \o ".metrics") : folder \in Folders, name \in Names}

\* the directories that always exist: the working directory and the root
GivenDirs == {"", "/"}

\* the directories that exist only when somebody has made them
MadeDirs == {dirname(path) : path \in Paths} \ GivenDirs

\* Metric(unit), for use with the partitioner part; the directories dirs have
\* been made, and no file exists
MetricInitIn(unit, part, dirs) ==
    /\ metric = Metric__init__(unit)
    /\ mt_part = part
    /\ files = [dirs |-> GivenDirs \cup dirs, at |-> [path \in Paths |-> None]]
    /\ mt_call = "__init__"
    /\ mt_arg = None
    /\ mt_raised = "none"
    /\ mt_result = None
    /\ mt_entry = Metric__init__(unit)

\* Metric(unit), for use with the partitioner part; no file exists
MetricInit(unit, part) == MetricInitIn(unit, part, {})

\* BasePartitioner.__init__(graph, name), partitioner.py lines 14-40, called
\* for an object of the class cls, which decides what run does: the object
\* has graph, name, partition, attribute_label and attr_value_minmax; it has
\* no attribute partitions and no method get_sorted_node_list
\* (has_partitions is FALSE, the field partitions is not read then).
\* attributes are the attributes written to the graph since.
BasePartitioner__init__(cls, nodes) ==
    [cls |-> cls, nodes |-> nodes, partition |-> None,
     attribute_label |-> None, has_partitions |-> FALSE, partitions |-> None,
     attributes |-> {}]

\* a partitioner whose graph has no node
NoPartitioner == BasePartitioner__init__("BasePartitioner", <<>>)

\* the Metric's variables while no Metric is used
MetricUnused == MetricInit(Some("time"), NoPartitioner)

\* calculate_all is not followed statement by statement
StepsUnused ==
    /\ ca_pc = "idle"
    /\ ca_arg = FALSE
    /\ ca_pending = {}
    /\ ca_writes = <<>>

\* a call ends with the exception, or returns a value
MetricCall(method, argument, exception, returned) ==
    /\ mt_call' = method
    /\ mt_arg' = argument
    /\ mt_raised' = exception
    /\ mt_result' = returned
    /\ mt_entry' = metric

\* the values a caller or a test assigns to the scalar attributes and to the
\* items of avg_path_length
Assigned == {None, Some(2), Some(11)}

\* metric.coverage = value
SetCoverage ==
    /\ \E value \in Assigned \ {metric.coverage} :
           metric' = [metric EXCEPT !.coverage = value]
    /\ MetricCall("coverage =", None, "none", None)
    /\ UNCHANGED <<mt_part, files>>
    /\ UNCHANGED exceptMetric

\* metric.num_components = value
SetNumComponents ==
    /\ \E value \in Assigned \ {metric.num_components} :
           metric' = [metric EXCEPT !.num_components = value]
    /\ MetricCall("num_components =", None, "none", None)
    /\ UNCHANGED <<mt_part, files>>
    /\ UNCHANGED exceptMetric

\* metric.avg_path_length = {"E": e, "S": s, "N": n}
SetAvgPathLength ==
    /\ \E e \in Assigned, sp \in Assigned, n \in Assigned :
           LET dict == <<[key |-> "E", value |-> e], [key |-> "S", value |-> sp],
                         [key |-> "N", value |-> n]>>
           IN  /\ dict # metric.avg_path_length
               /\ metric' = [metric EXCEPT !.avg_path_length = dict]
    /\ MetricCall("avg_path_length =", None, "none", None)
    /\ UNCHANGED <<mt_part, files>>
    /\ UNCHANGED exceptMetric

\* str(metric)
Str ==
    /\ MetricCall("__str__", None, "none", Some(Metric__str__(metric)))
    /\ UNCHANGED <<metric, mt_part, files>>
    /\ UNCHANGED exceptMetric

\* repr(metric)
Repr ==
    /\ MetricCall("__repr__", None, "none", Some(Metric__repr__(metric)))
    /\ UNCHANGED <<metric, mt_part, files>>
    /\ UNCHANGED exceptMetric

MetricStrNext ==
    \/ SetCoverage
    \/ SetNumComponents
    \/ SetAvgPathLength
    \/ Str
    \/ Repr

----------------------------------------------------------------------------
(* The Metric: calculate_before, calculate_all and the measures *)

\* the number of nodes of the graph that the Metric is calculated for
MaxNode == 3

\* list(partitioner.graph.nodes): the nodes in the order of the graph
GraphNodes == [k \in 1 .. MaxNode |-> k]

\* the partitions a run of the partitioner can leave: for every node the
\* partition it lies in, 0 for a node of the sparsified graph only
PartitionNames == {0, 1}
Assignments == [1 .. MaxNode -> PartitionNames]

\* a partitioner of the class that metric.py is written for (it is not
\* under src/), before its run: it has the attribute partitions, which is
\* None, and no attribute has been written to its graph
Unpartitioned ==
    [BasePartitioner__init__("BasePartitioner", GraphNodes)
        EXCEPT !.has_partitions = TRUE]

\* the partitioners a Metric is calculated for: the two of partitioner.py,
\* one whose run is the body of BasePartitioner.run and a DummyPartitioner,
\* and one of the class with partitions
Partitioners ==
    {BasePartitioner__init__("BasePartitioner", GraphNodes),
     BasePartitioner__init__("DummyPartitioner", GraphNodes),
     Unpartitioned}

\* partitioner.get_sorted_node_list(): the nodes of the sparsified graph,
\* then the nodes of every partition; it fails without partitions, and a
\* partitioner of partitioner.py has no such method
get_sorted_node_list(part) ==
    IF ~part.has_partitions \/ part.partitions = None
    THEN [err |-> "AttributeError", list |-> <<>>]
    ELSE LET of == The(part.partitions)
         IN  [err |-> "none",
              list |-> SelectSeq(part.nodes, LAMBDA n : of[n] = 0)
                           \o SelectSeq(part.nodes, LAMBDA n : of[n] = 1)]

\* the weight of the full graph taken for "travel_time" whatever the unit
Weight_TravelTime(unit) ==
    IF unit = Some("distance") THEN Some("length") ELSE Some("travel_time")

\* weight in calculate_before, lines 172-178
Weight(unit) ==
    IF unit = Some("distance") THEN Some("length")
    ELSE IF unit = Some("time") THEN Some("travel_time")
    ELSE unit

\* weight_restricted in calculate_all, lines 243-251
WeightRestricted(unit, replace_max_speeds) ==
    IF unit = Some("distance") THEN Some("length")
    ELSE IF unit = Some("time") /\ ~replace_max_speeds THEN Some("travel_time")
    ELSE IF unit = Some("time") /\ replace_max_speeds
         THEN Some("travel_time_restricted")
    ELSE unit

\* a distance or predecessor matrix: the node order that its rows and columns
\* follow, and the weight it was computed with
Matrix(node_order, weight) ==
    Some([node_order |-> node_order, weight |-> weight])

\* the percentiles handed to calculate_high_bc_clustering: the type of the
\* value and, for a finite number, the value counted in halves of a percent
Number(type, halves) == [type |-> type, special |-> "finite", halves |-> halves]
Percentiles ==
    {Number("int", 2 * p) : p \in {0 - 1, 0, 1, 50, 90, 99, 100, 101}}
        \cup {Number("float", h) : h \in {0 - 1, 0, 1, 100, 199, 200, 201}}
        \cup {Number("bool", 0), Number("bool", 2), Number("str", 100),
              Number("NoneType", 0),
              [type |-> "float", special |-> "nan", halves |-> 0],
              [type |-> "float", special |-> "inf", halves |-> 0]}

\* config.CLUSTERING_PERCENTILE = 90
CLUSTERING_PERCENTILE == Number("int", 2 * 90)

\* isinstance(percentile, (float, int)); bool is a subclass of int
IsFloatOrInt(percentile) == percentile.type \in {"float", "int", "bool"}

\* 0.0 <= percentile <= 100.0, the bounds wrongly admitted
InsideRange_Closed(percentile) ==
    /\ percentile.special = "finite"
    /\ 0 <= percentile.halves
    /\ percentile.halves <= 2 * 100

\* 0.0 < percentile < 100.0: a comparison with nan is False, inf is not
\* below 100
InsideRange(percentile) ==
    /\ percentile.special = "finite"
    /\ 0 < percentile.halves
    /\ percentile.halves < 2 * 100

\* measures.calculate_high_bc_clustering: the nodes above the percentile of
\* the betweenness are selected; returns the clustering and the anisotropy of
\* the selected nodes, here the number of nodes selected and of the others
measures_calculate_high_bc_clustering(node_list, percentile) ==
    LET below == (Len(node_list) * percentile.halves) \div (2 * 100)
    IN  <<Some(Len(node_list) - below), Some(below)>>

\* Metric.calculate_high_bc_clustering(graph, percentile), lines 371-407
calculate_high_bc_clustering(self, percentile) ==
    IF ~IsFloatOrInt(percentile) THEN [self |-> self, err |-> "ValueError"]
    ELSE IF ~InsideRange(percentile) THEN [self |-> self, err |-> "ValueError"]
    ELSE IF self.node_list = None THEN [self |-> self, err |-> "TypeError"]
    ELSE LET pair == measures_calculate_high_bc_clustering(
                         The(self.node_list), percentile)
         IN  [self |-> [self EXCEPT !.high_bc_clustering = pair[1],
                                    !.high_bc_anisotropy = pair[2]],
              err |-> "none"]

\* Metric.calculate_before(partitioner), lines 146-198: what it makes of the
\* Metric and of the partitioner's graph, and the exception it ends with
calculate_before(self, part) ==
    LET graph_order == self.node_list = None /\ part.partitions = None
        sorted == get_sorted_node_list(part)
    IN  IF ~part.has_partitions
        THEN [self |-> self, part |-> part, err |-> "AttributeError"]
        ELSE IF ~graph_order /\ sorted.err # "none"
        THEN [self |-> self, part |-> part, err |-> sorted.err]
        ELSE LET node_list == IF graph_order THEN part.nodes ELSE sorted.list
                 weight == Weight(self.unit)
                 with_E == IF self.unit = Some("distance")
                           THEN DictSet(self.distance_matrix, "E",
                                        Matrix(node_list, Some("euclidean")))
                           ELSE self.distance_matrix
                 self_S == [self EXCEPT
                     !.node_list = Some(node_list),
                     !.distance_matrix =
                         DictSet(with_E, "S", Matrix(node_list, weight)),
                     !.predecessor_matrix =
                         DictSet(self.predecessor_matrix, "S",
                                 Matrix(node_list, weight))]
                 clustering ==
                     calculate_high_bc_clustering(self_S, CLUSTERING_PERCENTILE)
             IN  [self |-> clustering.self,
                  part |-> [part EXCEPT !.attributes =
                                @ \cup {"node_betweenness_normal"}],
                  err |-> clustering.err]

\* measures.calculate_coverage(partitioner): the share of the graph that lies
\* inside the partitions, in percent; it fails without partitions
calculate_coverage(part) ==
    IF ~part.has_partitions \/ part.partitions = None
    THEN [err |-> "AttributeError", value |-> None]
    ELSE LET of == The(part.partitions)
         IN  [err |-> "none",
              value |-> Some((100 * Cardinality({n \in DOMAIN of : of[n] # 0}))
                                 \div Len(part.nodes))]

\* measures.calculate_directness and measures.calculate_global_efficiency
\* (distance_matrix, measure1, measure2): computed from distance_matrix[measure1]
\* and distance_matrix[measure2] over the pairs of different nodes: here the
\* number of these pairs; a label that distance_matrix lacks is a KeyError
MeasureOfPairs(distance_matrix, measure1, measure2) ==
    IF ~DictHas(distance_matrix, measure1) \/ ~DictHas(distance_matrix, measure2)
    THEN [err |-> "KeyError", value |-> None]
    ELSE LET n == Len(The(DictGet(distance_matrix, measure1)).node_order)
         IN  [err |-> "none", value |-> Some(n * (n - 1))]

calculate_directness(distance_matrix, measure1, measure2) ==
    MeasureOfPairs(distance_matrix, measure1, measure2)

calculate_global_efficiency(distance_matrix, measure1, measure2) ==
    MeasureOfPairs(distance_matrix, measure1, measure2)

\* key[0] and key[1] of a key of directness or global_efficiency
First(key) == SubSeq(key, 1, 1)
Second(key) == SubSeq(key, 2, 2)

\* the loops of calculate_all_measure_sums over the keys of a dict, from the
\* k-th key on: every key is recomputed, the first exception ends the loop
RECURSIVE MeasureLoop(_, _, _, _)
MeasureLoop(dict, distance_matrix, efficiency, k) ==
    IF k > Len(dict) THEN [dict |-> dict, err |-> "none"]
    ELSE LET key == dict[k].key
             computed ==
                 IF efficiency
                 THEN calculate_global_efficiency(distance_matrix,
                                                  First(key), Second(key))
                 ELSE calculate_directness(distance_matrix,
                                           First(key), Second(key))
         IN  IF computed.err # "none" THEN [dict |-> dict, err |-> computed.err]
             ELSE MeasureLoop(DictSet(dict, key, computed.value),
                              distance_matrix, efficiency, k + 1)

\* Metric.calculate_all_measure_sums(), lines 349-369
calculate_all_measure_sums(self) ==
    LET directness == MeasureLoop(self.directness, self.distance_matrix, FALSE, 1)
        self_D == [self EXCEPT !.directness = directness.dict]
        efficiency ==
            MeasureLoop(self.global_efficiency, self.distance_matrix, TRUE, 1)
    IN  IF directness.err # "none" THEN [self |-> self_D, err |-> directness.err]
        ELSE [self |-> [self_D EXCEPT !.global_efficiency = efficiency.dict],
              err |-> efficiency.err]

\* the keys that calculate_all declares when the unit is "distance",
\* lines 235-238
DeclareEuclidean(self) ==
    IF self.unit # Some("distance") THEN self
    ELSE [self EXCEPT
             !.avg_path_length = DictSet(@, "E", None),
             !.directness = DictSet(DictSet(@, "ES", None), "EN", None),
             !.global_efficiency = DictSet(DictSet(@, "SE", None), "NE", None)]

\* Metric.calculate_all(partitioner, replace_max_speeds), lines 200-345
calculate_all(self, part, replace_max_speeds) ==
    LET before == calculate_before(self, part)
        declared == DeclareEuclidean(before.self)
        coverage == calculate_coverage(before.part)
    IN  IF before.err # "none" THEN before
        ELSE IF coverage.err # "none"
        THEN [self |-> declared, part |-> before.part, err |-> coverage.err]
        ELSE LET node_list == The(declared.node_list)
                 weight == WeightRestricted(declared.unit, replace_max_speeds)
                 self_N == [declared EXCEPT
                     !.coverage = coverage.value,
                     !.distance_matrix =
                         DictSet(@, "N", Matrix(node_list, weight)),
                     !.predecessor_matrix =
                         DictSet(@, "N", Matrix(node_list, weight))]
                 part_N == [before.part EXCEPT !.attributes =
                               @ \cup {"node_betweenness_normal_restricted"}]
                 sums == calculate_all_measure_sums(self_N)
             IN  IF sums.err # "none"
                 THEN [self |-> sums.self, part |-> part_N, err |-> sums.err]
                 ELSE [self |-> sums.self,
                       part |-> [part_N EXCEPT !.attributes =
                                    @ \cup {"rel_increase"}],
                       err |-> "none"]

\* BasePartitioner.run, partitioner.py lines 43-54, on a partitioner of
\* partitioner.py whose class runs this body: it sets attribute_label and
\* partition, nothing else
RunPartitioner ==
    /\ mt_part.cls = "BasePartitioner"
    /\ ~mt_part.has_partitions
    /\ mt_part' = [mt_part EXCEPT
           !.attribute_label = Some("example_label"),
           !.partition = Some(<<[name |-> "zero", value |-> 0],
                                [name |-> "one", value |-> 1]>>)]
    /\ MetricCall("partitioner.run", None, "none", None)
    /\ UNCHANGED <<metric, files>>
    /\ UNCHANGED exceptMetric

\* DummyPartitioner.run, partitioner.py lines 154-173: it sets
\* attribute_label, writes the attribute 'dummy_attribute' (one of 0, 1, 2
\* drawn for every edge) to the graph, and sets partition to the three
\* partitions named after these values; it sets no attribute partitions
RunDummyPartitioner ==
    /\ mt_part.cls = "DummyPartitioner"
    /\ mt_part' = [mt_part EXCEPT
           !.attribute_label = Some("dummy_attribute"),
           !.attributes = @ \cup {"dummy_attribute"},
           !.partition = Some([num \in 1 .. 3 |->
                                  [name |-> ToString(num - 1),
                                   value |-> num - 1]])]
    /\ MetricCall("partitioner.run", None, "none", None)
    /\ UNCHANGED <<metric, files>>
    /\ UNCHANGED exceptMetric

\* the run of a partitioner of the class with partitions, a first time or
\* again: by its end the partition list is populated
RunPartitions ==
    /\ mt_part.has_partitions
    /\ \E of \in Assignments :
           /\ mt_part.partitions # Some(of)
           /\ mt_part' = [mt_part EXCEPT !.partitions = Some(of)]
    /\ MetricCall("partitioner.run", None, "none", None)
    /\ UNCHANGED <<metric, files>>
    /\ UNCHANGED exceptMetric

\* metric.calculate_before(partitioner)
CalculateBefore ==
    /\ LET done == calculate_before(metric, mt_part)
       IN  /\ metric' = done.self
           /\ mt_part' = done.part
           /\ MetricCall("calculate_before", None, done.err, None)
    /\ UNCHANGED files
    /\ UNCHANGED exceptMetric

\* metric.calculate_all(partitioner, replace_max_speeds)
CalculateAll ==
    /\ \E replace_max_speeds \in BOOLEAN :
           LET done == calculate_all(metric, mt_part, replace_max_speeds)
           IN  /\ metric' = done.self
               /\ mt_part' = done.part
               /\ MetricCall("calculate_all",
                             Some([replace_max_speeds |-> replace_max_speeds]),
                             done.err, None)
    /\ UNCHANGED files
    /\ UNCHANGED exceptMetric

\* ---- Metric.calculate_all followed statement by statement ----

\* the statement raises: calculate_all ends with the exception
StepRaise(exception) ==
    /\ ca_pc' = "idle"
    /\ ca_pending' = {}
    /\ mt_call' = "calculate_all"
    /\ mt_arg' = Some([replace_max_speeds |-> ca_arg])
    /\ mt_raised' = exception
    /\ mt_result' = None

\* the graph of the partitioner gets the attribute
WriteAttribute(attribute) ==
    /\ mt_part' = [mt_part EXCEPT !.attributes = @ \cup {attribute}]
    /\ ca_writes' = Append(ca_writes, attribute)

\* line 233: calculate_all is entered and calls calculate_before, which
\* writes the betweenness of the full graph
StepCalculateBefore ==
    /\ ca_pc = "idle"
    /\ \E replace_max_speeds \in BOOLEAN : ca_arg' = replace_max_speeds
    /\ mt_entry' = metric
    /\ LET before == calculate_before(metric, mt_part)
       IN  /\ metric' = before.self
           /\ mt_part' = before.part
           /\ ca_writes' = IF before.err = "AttributeError" THEN <<>>
                           ELSE <<"node_betweenness_normal">>
           /\ IF before.err # "none"
              THEN /\ ca_pc' = "idle"
                   /\ mt_call' = "calculate_all"
                   /\ mt_arg' = Some([replace_max_speeds |-> ca_arg'])
                   /\ mt_raised' = before.err
                   /\ mt_result' = None
              ELSE /\ ca_pc' = "coverage"
                   /\ UNCHANGED <<mt_call, mt_arg, mt_raised, mt_result>>
    /\ ca_pending' = {}
    /\ UNCHANGED files
    /\ UNCHANGED exceptStep

\* lines 235-252: the keys of E, the coverage, and the restricted
\* computation is started on the partitions
StepStartRestricted ==
    /\ ca_pc = "coverage"
    /\ LET declared == DeclareEuclidean(metric)
           coverage == calculate_coverage(mt_part)
       IN  /\ IF coverage.err # "none"
              THEN /\ metric' = declared
                   /\ StepRaise(coverage.err)
              ELSE /\ metric' = [declared EXCEPT !.coverage = coverage.value]
                   /\ ca_pc' = "restricted"
                   /\ ca_pending' = {The(mt_part.partitions)[n] :
                                        n \in DOMAIN The(mt_part.partitions)}
                   /\ UNCHANGED <<mt_call, mt_arg, mt_raised, mt_result>>
    /\ UNCHANGED <<mt_part, files, mt_entry, ca_arg, ca_writes>>
    /\ UNCHANGED exceptStep

\* a slip: a worker of the restricted computation tags the graph
StepWorker_Tags ==
    /\ ca_pc = "restricted"
    /\ \E name \in ca_pending : ca_pending' = ca_pending \ {name}
    /\ WriteAttribute("node_betweenness_normal_restricted")
    /\ UNCHANGED <<metric, files, mt_call, mt_arg, mt_raised, mt_result,
                   mt_entry, ca_pc, ca_arg>>
    /\ UNCHANGED exceptStep

\* the restricted computation runs: the rows of one more partition are
\* computed, in any order; the graph is read
StepWorker ==
    /\ ca_pc = "restricted"
    /\ \E name \in ca_pending : ca_pending' = ca_pending \ {name}
    /\ UNCHANGED <<metric, mt_part, files, mt_call, mt_arg, mt_raised,
                   mt_result, mt_entry, ca_pc, ca_arg, ca_writes>>
    /\ UNCHANGED exceptStep

\* lines 252-263: the restricted computation returns and N is stored
StepStoreRestricted ==
    /\ ca_pc = "restricted"
    /\ ca_pending = {}
    /\ LET weight == WeightRestricted(metric.unit, ca_arg)
           node_list == The(metric.node_list)
       IN  metric' = [metric EXCEPT
               !.distance_matrix = DictSet(@, "N", Matrix(node_list, weight)),
               !.predecessor_matrix = DictSet(@, "N", Matrix(node_list, weight))]
    /\ ca_pc' = "betweenness"
    /\ UNCHANGED <<mt_part, files, mt_call, mt_arg, mt_raised, mt_result,
                   mt_entry, ca_arg, ca_pending, ca_writes>>
    /\ UNCHANGED exceptStep

\* lines 265-272: betweenness_centrality with attr_suffix "_restricted"
StepWriteBetweenness ==
    /\ ca_pc = "betweenness"
    /\ WriteAttribute("node_betweenness_normal_restricted")
    /\ ca_pc' = "sums"
    /\ UNCHANGED <<metric, files, mt_call, mt_arg, mt_raised, mt_result,
                   mt_entry, ca_arg, ca_pending>>
    /\ UNCHANGED exceptStep

\* line 274: calculate_all_measure_sums
StepMeasureSums ==
    /\ ca_pc = "sums"
    /\ LET sums == calculate_all_measure_sums(metric)
       IN  /\ metric' = sums.self
           /\ IF sums.err # "none"
              THEN StepRaise(sums.err)
              ELSE /\ ca_pc' = "relative_increase"
                   /\ UNCHANGED <<mt_call, mt_arg, mt_raised, mt_result,
                                  ca_pending>>
    /\ UNCHANGED <<mt_part, files, mt_entry, ca_arg, ca_writes>>
    /\ UNCHANGED exceptStep

\* lines 276-278: write_relative_increase_to_edges, and calculate_all returns
StepWriteRelativeIncrease ==
    /\ ca_pc = "relative_increase"
    /\ WriteAttribute("rel_increase")
    /\ ca_pc' = "idle"
    /\ mt_call' = "calculate_all"
    /\ mt_arg' = Some([replace_max_speeds |-> ca_arg])
    /\ mt_raised' = "none"
    /\ mt_result' = None
    /\ UNCHANGED <<metric, files, mt_entry, ca_arg, ca_pending>>
    /\ UNCHANGED exceptStep

\* the partitioner runs while no calculate_all is under way
StepRunPartitioner ==
    /\ ca_pc = "idle"
    /\ RunPartitioner
    /\ UNCHANGED stepVars

StepRunPartitions ==
    /\ ca_pc = "idle"
    /\ RunPartitions
    /\ UNCHANGED stepVars

StepRunDummyPartitioner ==
    /\ ca_pc = "idle"
    /\ RunDummyPartitioner
    /\ UNCHANGED stepVars

MetricStepsNext ==
    \/ StepRunPartitioner
    \/ StepRunPartitions
    \/ StepRunDummyPartitioner
    \/ StepCalculateBefore
    \/ StepStartRestricted
    \/ StepWorker
    \/ StepStoreRestricted
    \/ StepWriteBetweenness
    \/ StepMeasureSums
    \/ StepWriteRelativeIncrease

\* metric.calculate_all_measure_sums()
CalculateAllMeasureSums ==
    /\ LET done == calculate_all_measure_sums(metric)
       IN  /\ metric' = done.self
           /\ MetricCall("calculate_all_measure_sums", None, done.err, None)
    /\ UNCHANGED <<mt_part, files>>
    /\ UNCHANGED exceptMetric

\* metric.calculate_high_bc_clustering(partitioner.graph, percentile)
CalculateHighBcClustering ==
    /\ \E percentile \in Percentiles :
           LET done == calculate_high_bc_clustering(metric, percentile)
           IN  /\ metric' = done.self
               /\ MetricCall("calculate_high_bc_clustering", Some(percentile),
                             done.err, None)
    /\ UNCHANGED <<mt_part, files>>
    /\ UNCHANGED exceptMetric

MetricCalculateNext ==
    \/ RunPartitioner
    \/ RunDummyPartitioner
    \/ RunPartitions
    \/ CalculateBefore
    \/ CalculateAll
    \/ CalculateAllMeasureSums

MetricClusteringNext ==
    \/ RunPartitioner
    \/ RunDummyPartitioner
    \/ RunPartitions
    \/ CalculateBefore
    \/ CalculateHighBcClustering

----------------------------------------------------------------------------
(* The Metric: save, load and __eq__ *)

\* pickle.dump(self, file): the bytes hold the class of the object and the
\* items of its __dict__ in their order
pickle_dump(self) ==
    [class |-> "Metric",
     state |-> [k \in 1 .. Len(DictOrder) |->
                   [key |-> DictOrder[k], value |-> self[DictOrder[k]]]]]

\* pickle.load(file): an object of that class whose __dict__ is made of the
\* items
pickle_load(bytes) ==
    [key \in {bytes.state[k].key : k \in 1 .. Len(bytes.state)} |->
        DictGet(bytes.state, key)]

\* utils.compare_dicts(dict1, dict2): the same keys, and under every key
\* values that are equal, a dict again compared key by key
compare_dicts(dict1, dict2) ==
    /\ DOMAIN dict1 = DOMAIN dict2
    /\ \A key \in DOMAIN dict1 :
           IF key \in DictAttributes
           THEN LET items1 == dict1[key]
                    items2 == dict2[key]
                IN  /\ {items1[k].key : k \in 1 .. Len(items1)}
                           = {items2[k].key : k \in 1 .. Len(items2)}
                    /\ \A k \in 1 .. Len(items1) :
                           DictGet(items2, items1[k].key) = items1[k].value
           ELSE dict1[key] = dict2[key]

\* Metric.__eq__(other), lines 439-445
Metric__eq__(self, other) == compare_dicts(self, other)

\* the path that save writes, line 461, and the path that load reads, line 486
SavePath(folder, name) == join(folder, name \o ".metrics")
LoadPath(name) == join(join(RESULTS_DIR, name), name \o ".metrics")

\* metric.save(folder, name), lines 447-468
Save ==
    /\ \E folder \in Folders, name \in Names :
           IF dirname(SavePath(folder, name)) \notin files.dirs
           THEN /\ MetricCall("save", Some([folder |-> folder, name |-> name]),
                              "FileNotFoundError", None)
                /\ UNCHANGED files
           ELSE /\ files' = [files EXCEPT !.at[SavePath(folder, name)] =
                                              Some(pickle_dump(metric))]
                /\ MetricCall("save", Some([folder |-> folder, name |-> name]),
                              "none", None)
    /\ UNCHANGED <<metric, mt_part>>
    /\ UNCHANGED exceptMetric

\* Metric.load(name), lines 470-491
Load ==
    /\ \E name \in Names :
           IF files.at[LoadPath(name)] = None
           THEN MetricCall("load", Some([name |-> name]), "FileNotFoundError",
                           None)
           ELSE MetricCall("load", Some([name |-> name]), "none",
                           Some(pickle_load(The(files.at[LoadPath(name)]))))
    /\ UNCHANGED <<metric, mt_part, files>>
    /\ UNCHANGED exceptMetric

MetricFilesNext ==
    \/ SetCoverage
    \/ CalculateBefore
    \/ Save
    \/ Load

----------------------------------------------------------------------------
(* The distance engine (metrics/distances.py), called on the partitioning   *)
(* that the checker's variables hold                                        *)

\* no matrix has been asked for
NoMatrices == [E |-> None, S |-> None, N |-> None]

DistUnused ==
    /\ d_weight = <<>>
    /\ d_order = None
    /\ d_opts = <<>>
    /\ d_pc = "unused"
    /\ d_pending = {}
    /\ d_flight = {}
    /\ d_rows = <<>>
    /\ d_out = NoMatrices

\* numpy.inf, the distance of a pair without a path: larger than every path
Inf == 1000

\* the predecessor of a node that is not reached, and of the start node
NoPredecessor == 0 - 9999

\* the projected coordinates (x, y) of the nodes 1 .. 4: the corners of a
\* 3 by 4 rectangle, every distance between two of them is a whole number
Coordinates == << <<0, 0>>, <<3, 0>>, <<3, 4>>, <<0, 4>> >>

\* the square root of a square number
Sqrt(n) == CHOOSE r \in 0 .. n : r * r = n

\* node_order; list(graph.nodes) when the argument is None, the nodes in the
\* order of the graph, ascending here
NodeOrder(g, order) == IF order = None THEN SortedSeq(g.nodes) ELSE The(order)

\* the place of a node in the node order, counted from 0
IndexOf(nodes, n) == (CHOOSE i \in 1 .. Len(nodes) : nodes[i] = n) - 1

\* E: the straight-line distance of every pair, by position in the order
calculate_euclidean_distance_matrix_projected(g, order) ==
    LET nodes == NodeOrder(g, order)
        x(i) == Coordinates[nodes[i]][1]
        y(i) == Coordinates[nodes[i]][2]
    IN  [err |-> "none",
         dist |-> [i \in 1 .. Len(nodes) |-> [j \in 1 .. Len(nodes) |->
                      Sqrt((x(i) - x(j)) * (x(i) - x(j))
                           + (y(i) - y(j)) * (y(i) - y(j)))]],
         pred |-> <<>>]

\* one round of edge relaxation on the distances d from the start node
Relax(edges, w, d) ==
    [n \in DOMAIN d |->
        LET through == {d[e[1]] + w[e] :
                            e \in {f \in edges : f[2] = n /\ d[f[1]] < Inf}}
            best == CHOOSE a \in through \cup {d[n]} :
                        \A b \in through \cup {d[n]} : a <= b
        IN  best]

\* rounds of relaxation until no distance gets smaller
RECURSIVE Relaxed(_, _, _, _)
Relaxed(edges, w, d, rounds) ==
    LET next == Relax(edges, w, d)
    IN  IF rounds = 0 \/ next = d THEN d
        ELSE Relaxed(edges, w, next, rounds - 1)

\* a slip: the paths start at the nodes the start node has an edge to, the
\* start node itself is reached by a round trip only
ShortestFrom_FromNeighbours(all_nodes, edges, w, src) ==
    Relaxed(edges, w,
            [n \in all_nodes |->
                IF \E e \in edges : e[1] = src /\ e[2] = n
                THEN w[CHOOSE e \in edges : e[1] = src /\ e[2] = n]
                ELSE Inf],
            Cardinality(all_nodes))

\* single-source shortest paths from src over the edges, weights not
\* negative: the distance of every node of the graph, Inf when not reached
ShortestFrom(all_nodes, edges, w, src) ==
    Relaxed(edges, w, [n \in all_nodes |-> IF n = src THEN 0 ELSE Inf],
            Cardinality(all_nodes))

\* the node before n on a shortest path from src: the first in the node
\* order among those a shortest path arrives from
PredecessorFrom(nodes, edges, w, d, src, n) ==
    LET before == {e[1] : e \in {f \in edges : /\ f[2] = n
                                              /\ d[f[1]] < Inf
                                              /\ d[f[1]] + w[f] = d[n]}}
    IN  IF n = src \/ d[n] = Inf \/ before = {} THEN NoPredecessor
        ELSE CHOOSE i \in {IndexOf(nodes, b) : b \in before} :
                 \A k \in {IndexOf(nodes, b) : b \in before} : i <= k

\* the row of the start node in the distance and in the predecessor matrix
RowFrom(nodes, edges, w, src) ==
    LET d == ShortestFrom({nodes[k] : k \in 1 .. Len(nodes)}, edges, w, src)
    IN  [dist |-> [j \in 1 .. Len(nodes) |-> d[nodes[j]]],
         pred |-> [j \in 1 .. Len(nodes) |->
                      PredecessorFrom(nodes, edges, w, d, src, nodes[j])]]

\* a slip: the weights are not looked at before the paths are computed
calculate_path_distance_matrix_Unchecked(g, w, order) ==
    LET nodes == NodeOrder(g, order)
    IN  [err |-> "none",
         dist |-> [i \in 1 .. Len(nodes) |->
                      RowFrom(nodes, g.edges, w, nodes[i]).dist],
         pred |-> [i \in 1 .. Len(nodes) |->
                      RowFrom(nodes, g.edges, w, nodes[i]).pred]]

\* S: shortest paths from every node over the complete graph; ValueError
\* and no matrix when an edge has a negative weight
calculate_path_distance_matrix(g, w, order) ==
    LET nodes == NodeOrder(g, order)
    IN  IF \E e \in g.edges : w[e] < 0
        THEN [err |-> "ValueError", dist |-> <<>>, pred |-> <<>>]
        ELSE [err |-> "none",
              dist |-> [i \in 1 .. Len(nodes) |->
                           RowFrom(nodes, g.edges, w, nodes[i]).dist],
              pred |-> [i \in 1 .. Len(nodes) |->
                           RowFrom(nodes, g.edges, w, nodes[i]).pred]]

\* two components (or partitions) have the same name
DuplicateNames(pns) ==
    \E i, j \in 1 .. Len(pns) : i # j /\ pns[i].name = pns[j].name

\* a slip: only the node sets are compared, a copy of a component whose
\* nodes all lie in the sparsified graph is let through
partitioning_checks_NodesOnly(pns, check_overlap) ==
    IF DuplicateNames(pns) THEN "ValueError"
    ELSE IF check_overlap /\ \E i, j \in 1 .. Len(pns) :
                                i < j /\ pns[i].nodes \cap pns[j].nodes # {}
    THEN "ValueError"
    ELSE "none"

\* the checks before the restricted computation, and the exception they
\* raise: no name is used twice and, when check_overlap is set, no two
\* components (or partitions) overlap, that is, no node lies in the node
\* sets of two of them and no edge in the subgraphs of two of them
partitioning_checks(pns, check_overlap) ==
    IF DuplicateNames(pns) THEN "ValueError"
    ELSE IF check_overlap /\ \E i, j \in 1 .. Len(pns) :
                                /\ i < j
                                /\ \/ \E n \in pns[i].nodes : n \in pns[j].nodes
                                   \/ \E e \in pns[i].subgraph :
                                          e \in pns[j].subgraph
    THEN "ValueError"
    ELSE "none"

\* the parts whose nodes are start nodes: the components (or partitions) with
\* their node sets, and the sparsified graph with its nodes
StartParts(comps, parts, sparse) ==
    get_partition_nodes(comps, parts, sparse)
        \o <<[name |-> "sparsified", subgraph |-> sparse,
              nodes |-> NodesOf(sparse)]>>

\* a slip: the paths from a component's nodes may use every edge
RestrictedRow_FullGraph(g, part, sparse, w, nodes, src) ==
    RowFrom(nodes, g.edges, w, src)

\* the row of a start node of the part: shortest paths confined to the
\* part's subgraph and the sparsified graph
RestrictedRow(g, part, sparse, w, nodes, src) ==
    RowFrom(nodes, (part.subgraph \cup sparse) \cap g.edges, w, src)

\* the rows a worker writes for a set of parts: those of the parts' nodes,
\* every other row is left as it is
WriteRows(rows, g, sps, ids, sparse, w, nodes) ==
    [i \in 1 .. Len(nodes) |->
        IF \E k \in ids : nodes[i] \in sps[k].nodes
        THEN RestrictedRow(g, sps[CHOOSE k \in ids : nodes[i] \in sps[k].nodes],
                           sparse, w, nodes, nodes[i])
        ELSE rows[i]]

\* a row of the dense matrices that no worker has written
Unwritten == [dist |-> <<>>, pred |-> <<>>]

\* N: the checks, then the rows of every part's nodes written into the dense
\* matrices
calculate_partitioning_distance_matrix(g, comps, parts, sparse, w, order, check) ==
    LET nodes == NodeOrder(g, order)
        pns == get_partition_nodes(comps, parts, sparse)
        sps == StartParts(comps, parts, sparse)
        rows == WriteRows([i \in 1 .. Len(nodes) |-> Unwritten], g, sps,
                          1 .. Len(sps), sparse, w, nodes)
    IN  IF partitioning_checks(pns, check) # "none"
        THEN [err |-> partitioning_checks(pns, check),
              dist |-> <<>>, pred |-> <<>>]
        ELSE [err |-> "none",
              dist |-> [i \in 1 .. Len(nodes) |-> rows[i].dist],
              pred |-> [i \in 1 .. Len(nodes) |-> rows[i].pred]]

\* ---- the calls, and the workers of the restricted computation ----

\* the parts handed to the workers together: consecutive parts of the list
\* of start parts, chunk_size at a time
ChunkOf(k, chunk_size) == (k - 1) \div chunk_size + 1

ChunkIds(parts, chunk_size) == {ChunkOf(k, chunk_size) : k \in 1 .. parts}

PartsOfChunk(c, parts, chunk_size) ==
    {k \in 1 .. parts : ChunkOf(k, chunk_size) = c}

\* how many chunks are computed at the same time: one per worker, a single
\* one when the memory factor leaves no room for more
InFlightLimit(opts) == IF opts.max_mem_factor = 0 THEN 1 ELSE opts.num_workers

CalculateEuclidean ==
    /\ d_pc = "idle"
    /\ d_out.E = None
    /\ d_out.S = None
    /\ d_out' = [d_out EXCEPT !.E =
                    Some(calculate_euclidean_distance_matrix_projected(
                             graph, d_order))]
    /\ UNCHANGED <<d_weight, d_order, d_opts, d_pc, d_pending, d_flight, d_rows>>
    /\ UNCHANGED exceptDist

CalculatePath ==
    /\ d_pc = "idle"
    /\ d_out.S = None
    /\ d_out.N = None
    /\ d_out' = [d_out EXCEPT !.S =
                    Some(calculate_path_distance_matrix(graph, d_weight,
                                                        d_order))]
    /\ UNCHANGED <<d_weight, d_order, d_opts, d_pc, d_pending, d_flight, d_rows>>
    /\ UNCHANGED exceptDist

\* calculate_partitioning_distance_matrix seen from its caller
CalculatePartitioning ==
    /\ d_pc = "idle"
    /\ d_out.N = None
    /\ d_out' = [d_out EXCEPT !.N =
                    Some(calculate_partitioning_distance_matrix(
                             graph, components, partitions, sparsified,
                             d_weight, d_order, d_opts.check_overlap))]
    /\ d_pc' = "done"
    /\ UNCHANGED <<d_weight, d_order, d_opts, d_pending, d_flight, d_rows>>
    /\ UNCHANGED exceptDist

\* calculate_partitioning_distance_matrix is entered: the checks, then the
\* empty matrices and the chunks for the workers
PartitioningStart ==
    /\ d_pc = "idle"
    /\ d_out.N = None
    /\ LET pns == get_partition_nodes(components, partitions, sparsified)
           err == partitioning_checks(pns, d_opts.check_overlap)
       IN  IF err # "none"
           THEN /\ d_out' = [d_out EXCEPT !.N =
                                Some([err |-> err, dist |-> <<>>, pred |-> <<>>])]
                /\ d_pc' = "done"
                /\ UNCHANGED <<d_pending, d_rows>>
           ELSE /\ d_pc' = "running"
                /\ d_pending' = ChunkIds(Len(pns) + 1, d_opts.chunk_size)
                /\ d_rows' = [i \in 1 .. Len(NodeOrder(graph, d_order)) |->
                                Unwritten]
                /\ UNCHANGED d_out
    /\ UNCHANGED <<d_weight, d_order, d_opts, d_flight>>
    /\ UNCHANGED exceptDist

\* a worker takes a chunk
WorkerStart ==
    /\ d_pc = "running"
    /\ Cardinality(d_flight) < InFlightLimit(d_opts)
    /\ \E c \in d_pending :
           /\ d_pending' = d_pending \ {c}
           /\ d_flight' = d_flight \cup {c}
    /\ UNCHANGED <<d_weight, d_order, d_opts, d_pc, d_rows, d_out>>
    /\ UNCHANGED exceptDist

\* a slip: a worker that finishes writes the rows of every part
WorkerFinish_AllRows ==
    /\ d_pc = "running"
    /\ \E c \in d_flight :
           LET sps == StartParts(components, partitions, sparsified)
           IN  /\ d_rows' = WriteRows(d_rows, graph, sps, 1 .. Len(sps),
                                      sparsified, d_weight,
                                      NodeOrder(graph, d_order))
               /\ d_flight' = d_flight \ {c}
    /\ UNCHANGED <<d_weight, d_order, d_opts, d_pc, d_pending, d_out>>
    /\ UNCHANGED exceptDist

\* a worker finishes, in any order: its rows are written into the matrices
WorkerFinish ==
    /\ d_pc = "running"
    /\ \E c \in d_flight :
           LET sps == StartParts(components, partitions, sparsified)
           IN  /\ d_rows' = WriteRows(d_rows, graph, sps,
                                      PartsOfChunk(c, Len(sps), d_opts.chunk_size),
                                      sparsified, d_weight,
                                      NodeOrder(graph, d_order))
               /\ d_flight' = d_flight \ {c}
    /\ UNCHANGED <<d_weight, d_order, d_opts, d_pc, d_pending, d_out>>
    /\ UNCHANGED exceptDist

\* every chunk is done: the matrices are returned
PartitioningReturn ==
    /\ d_pc = "running"
    /\ d_pending = {}
    /\ d_flight = {}
    /\ d_out' = [d_out EXCEPT !.N =
                    Some([err |-> "none",
                          dist |-> [i \in DOMAIN d_rows |-> d_rows[i].dist],
                          pred |-> [i \in DOMAIN d_rows |-> d_rows[i].pred]])]
    /\ d_pc' = "done"
    /\ UNCHANGED <<d_weight, d_order, d_opts, d_pending, d_flight, d_rows>>
    /\ UNCHANGED exceptDist

\* ---- the inputs of the distance engine ----

\* the most components a partitioning handed to the distance engine has
MaxOwners == 2

\* the most workers, and the largest chunk size
MaxWorkers == 2

\* the four-node cycle with one-way streets
CycleGraph == GraphOf({<<1, 2, 0>>, <<2, 3, 0>>, <<3, 4, 0>>, <<4, 1, 0>>})

\* a street 1 - 2 - 4 and a way round from 2 to 4 through 3
ShortcutGraph == GraphOf({<<1, 2, 0>>, <<2, 4, 0>>, <<2, 3, 0>>, <<3, 4, 0>>})

\* the parts of an assignment of the edges to owners, owner 0 being the
\* sparsified graph: one part for every owner that has an edge
OwnedParts(own) ==
    LET owners == SortedSeq({own[e] : e \in DOMAIN own} \ {0})
    IN  [i \in 1 .. Len(owners) |->
            [name |-> ToString(owners[i]),
             subgraph |-> {e \in DOMAIN own : own[e] = owners[i]}]]

\* the list a test makes of it: every part twice ("same", test_distances.py
\* lines 130-133), or the last part once more with _dup appended to its name
\* ("renamed", lines 146-153)
Duplicated(list, how) ==
    IF how = "no" \/ list = <<>> THEN list
    ELSE IF how = "same" THEN list \o list
    ELSE Append(list, [Last(list) EXCEPT !.name = @ \o "_dup"])

\* every order of the nodes
NodeOrders(nodes) ==
    {p \in [1 .. Cardinality(nodes) -> nodes] :
         \A i, j \in DOMAIN p : p[i] = p[j] => i = j}

\* list(graph.nodes)[::-1]
Reversed(list) == [i \in 1 .. Len(list) |-> list[Len(list) + 1 - i]]

\* the partitioning made of an assignment of the edges to owners
PartitioningOf(own, how, as_components) ==
    /\ sparsified = {e \in graph.edges : own[e] = 0}
    /\ components = IF as_components
                    THEN Duplicated(OwnedParts(own), how) ELSE <<>>
    /\ partitions = IF as_components
                    THEN <<>> ELSE Duplicated(OwnedParts(own), how)

\* the checker at the position, nothing checked yet
CheckerAt(position) ==
    /\ pc = position
    /\ ci = 0
    /\ found = TRUE
    /\ trace = <<>>
    /\ log = <<>>
    /\ highlight = [e \in graph.edges |-> NoAttr]
    /\ missing_nodes = [n \in graph.nodes |-> NoAttr]
    /\ result = "none"
    /\ derived = FALSE

\* the engine before a call
DistIdle ==
    /\ d_pc = "idle"
    /\ d_pending = {}
    /\ d_flight = {}
    /\ d_rows = <<>>
    /\ d_out = NoMatrices

\* one worker, one part at a time, the overlap check asked for
Sequential ==
    [num_workers |-> 1, chunk_size |-> 1, max_mem_factor |-> 5,
     check_overlap |-> TRUE]

----------------------------------------------------------------------------
(* save_to_gpkg (partitioning/utils.py) *)

\* determine_minmax_val is not called on its own
PlotUnused ==
    /\ mm_values = {}
    /\ mm_arg = None
    /\ mm_out = None

\* the partitioner's graph before save_to_gpkg is called: no edge has the
\* attribute 'classification', no file is written
GpkgUncalled ==
    /\ classification = [e \in graph.edges |-> NoAttr]
    /\ gpkg = None
    /\ gp_call = "none"
    /\ gp_raised = "none"

\* save_to_gpkg is not called
GpkgUnused ==
    /\ gp_sparsified = None
    /\ GpkgUncalled

\* a partitioner handed to save_to_gpkg: a graph, its attribute sparsified
\* (None, or a graph of any edges of the graph, of none as well), and its
\* components and partitions, each a list that may be empty
GpkgInit ==
    /\ graph \in Graphs
    /\ gp_sparsified \in {None} \cup {Some(edges) : edges \in SUBSET graph.edges}
    /\ sparsified = IF gp_sparsified = None THEN {} ELSE The(gp_sparsified)
    /\ \E l \in PartLists(graph.edges, 0, MaxParts) : components = Named(l)
    /\ \E l \in PartLists(graph.edges, 0, 1) :
           partitions = [i \in 1 .. Len(l) |->
                            [name |-> "p" \o ToString(i), subgraph |-> l[i]]]
    /\ pc = "unused"
    /\ ci = 0
    /\ found = TRUE
    /\ trace = <<>>
    /\ log = <<>>
    /\ highlight = [e \in graph.edges |-> NoAttr]
    /\ missing_nodes = [n \in graph.nodes |-> NoAttr]
    /\ result = "none"
    /\ derived = FALSE
    /\ GpkgUncalled /\ PlotUnused /\ DistUnused /\ StepsUnused

\* the loop at lines 79-82: set_edge_attributes(part["subgraph"], part["name"],
\* "classification") for the parts in their order, from the k-th part on
RECURSIVE BakeParts(_, _, _)
BakeParts(attribute, parts, k) ==
    IF k > Len(parts) THEN attribute
    ELSE BakeParts([e \in DOMAIN attribute |->
                       IF e \in parts[k].subgraph THEN parts[k].name
                                                  ELSE attribute[e]],
                   parts, k + 1)

\* the column 'classification' of the edges that are written, lines 84-89: an
\* edge without the attribute has NaN, which astype(str) turns into "nan"
EdgeColumn(attribute) ==
    [e \in DOMAIN attribute |->
        IF attribute[e] = NoAttr THEN "nan" ELSE attribute[e]]

\* a call of save_to_gpkg ends with the exception
GpkgRaise(exception) ==
    /\ gp_call' = "save_to_gpkg"
    /\ gp_raised' = exception
    /\ UNCHANGED <<classification, gpkg>>

\* save_to_gpkg(partitioner), lines 11-94
SaveToGpkg ==
    /\ IF gp_sparsified = None THEN GpkgRaise("ValueError")
       ELSE IF components = <<>> /\ partitions = <<>> THEN GpkgRaise("ValueError")
       ELSE LET parts == IF components # <<>> THEN components ELSE partitions
                baked == BakeParts(classification, parts, 1)
            IN  /\ classification' = baked
                /\ gpkg' = Some(EdgeColumn(baked))
                /\ gp_call' = "save_to_gpkg"
                /\ gp_raised' = "none"
    /\ UNCHANGED gp_sparsified
    /\ UNCHANGED chkVars
    /\ UNCHANGED exceptGpkg

GpkgNext == SaveToGpkg

----------------------------------------------------------------------------
(* determine_minmax_val (plot.py) called on its own *)

\* the values an edge has for the attribute
AttrValues == {None, Some(0 - 1), Some(0), Some(1), Some(2)}

\* the bounds a caller gives
BoundValues == {None, Some(0), Some(1), Some(2)}

\* the arguments minmax_val: None or a pair
MinMaxArgs == {None} \cup {Some(<<lo, hi>>) : lo \in BoundValues,
                                              hi \in BoundValues}

PlotInit ==
    /\ mm_values \in SUBSET AttrValues
    /\ mm_arg \in MinMaxArgs
    /\ mm_out = None

DetermineMinmaxVal ==
    /\ mm_out = None
    /\ mm_out' = Some(determine_minmax_val(mm_values, mm_arg))
    /\ UNCHANGED <<mm_values, mm_arg>>
    /\ UNCHANGED exceptPlot

PlotNext == DetermineMinmaxVal

----------------------------------------------------------------------------
(* Claims about the partitioner *)

\* a call of run has ended with an exception, and nothing was called since
RunFailed == last_call = "run" /\ rpc = "idle" /\ raised # "none"

\* a call of run has returned, and nothing was called since
RunReturned == last_call = "run" /\ rpc = "idle" /\ raised = "none"

\* C7: a run that ends with an exception, whatever the place it fails at,
\* leaves partition and attribute_label with the values they had when run
\* was called.
C7_FailedRunLeavesFields ==
    RunFailed =>
        /\ partition = entry.partition
        /\ attribute_label = entry.attribute_label

\* the last call was one of the two methods behind the guard
GuardedCall ==
    last_call \in {"plot_partition_graph", "make_subgraphs_from_attribute"}

\* plot_partition_graph and make_subgraphs_from_attribute have raised
\* AssertionError exactly when a field is None, and always before the first
\* successful run; when run has returned both fields are set
GuardFollowsFields ==
    /\ GuardedCall =>
          /\ (raised = "AssertionError") <=>
                 (partition = None \/ attribute_label = None)
          /\ ~ran_ok => raised = "AssertionError"
    /\ RunReturned => (partition # None /\ attribute_label # None)

\* a field that is set becomes None only when the caller resets it
UnsetOnlyByReset ==
    (\/ partition # None /\ partition' = None
     \/ attribute_label # None /\ attribute_label' = None)
        => (ResetPartition \/ ResetAttributeLabel)

\* C8: in any sequence of operations, plot_partition_graph and
\* make_subgraphs_from_attribute raise AssertionError exactly when partition
\* is None or attribute_label is None; before the first successful run they
\* always raise it; when run has returned both fields are set, and they stay
\* set until the caller resets one of them to None.
C8_GuardRaisesExactlyWhenUnset ==
    []GuardFollowsFields /\ [][UnsetOnlyByReset]_vars

\* after a run that succeeded the caller reset attribute_label, and
\* plot_partition_graph raised
C8_Witness ==
    /\ last_call = "plot_partition_graph"
    /\ ran_ok
    /\ partition # None
    /\ attribute_label = None
    /\ raised = "AssertionError"

\* the peaks the last peak detection returned
PeakInd == The(The(bin_info).peak_props).peak_ind

\* C9: once peak detection has returned, run has raised ArithmeticError if
\* and only if no peak was found; and when it is raised, the boundaries
\* (self._inter_vals), attribute_label, the bearing_group edge attribute and
\* partition are as they were when run was called.
C9_ArithmeticErrorIffNoPeaks ==
    (last_call = "run" /\ rpc # "find_peaks") =>
        /\ (raised = "ArithmeticError") <=> (Len(PeakInd) = 0)
        /\ raised = "ArithmeticError" => Fields = entry

\* a partitioner that holds a partition was run again on a graph without a
\* peak
C9_Witness ==
    /\ RunFailed
    /\ raised = "ArithmeticError"
    /\ ran_ok
    /\ partition # None

\* C10: whenever __make_boundaries has completed, the boundaries are strictly
\* increasing from 0 to 90, there is one center value for every pair of
\* neighbouring boundaries, and a center value that is not None lies in its
\* interval.
C10_IntervalTiling ==
    inter_vals.boundaries # None =>
        LET boundaries == The(inter_vals.boundaries)
            center_values == The(inter_vals.center_values)
        IN  /\ \A i \in 1 .. Len(boundaries) - 1 : boundaries[i] < boundaries[i + 1]
            /\ boundaries[1] = 0
            /\ Last(boundaries) = Ninety
            /\ Len(center_values) = Len(boundaries) - 1
            /\ \A i \in 1 .. Len(center_values) :
                   center_values[i] # None =>
                       /\ boundaries[i] <= The(center_values[i])
                       /\ The(center_values[i]) < boundaries[i + 1]

\* every two edges of the graph have bearings that are equivalent modulo 90
AllEquivalentMod90 ==
    \A e \in DOMAIN bearing, f \in DOMAIN bearing :
        EquivalentMod90(bearing[e], bearing[f])

\* no edge has a bearing_group label
NoEdgeLabelled == \A e \in DOMAIN bearing_group : bearing_group[e] = Absent

\* one peak was found, every edge has the same label, which is a center
\* value, and the partition list has one entry, which has that value
AllEdgesOneLabel ==
    /\ Len(PeakInd) = 1
    /\ partition # None
    /\ Len(The(partition)) = 1
    /\ The(partition)[1].value # None
    /\ \A e \in DOMAIN bearing_group :
           bearing_group[e] = Attr(The(partition)[1].value)

\* C11: on a graph whose edge bearings are all equivalent modulo 90, run
\* either finds exactly one peak and gives every edge the same bearing_group
\* label, that of the single partition entry, or raises the ArithmeticError
\* for no peaks with no edge labelled; at no moment of run are some edges
\* labelled and others not.
C11_NeverPartiallyLabels ==
    AllEquivalentMod90 =>
        /\ NoEdgeLabelled \/ \A e \in DOMAIN bearing_group : bearing_group[e] # Absent
        /\ (last_call = "run" /\ rpc = "idle") =>
               \/ raised = "none" /\ AllEdgesOneLabel
               \/ raised = "ArithmeticError" /\ NoEdgeLabelled

\* run has returned on a graph whose edges point in different directions
\* that are equivalent modulo 90, with one label on all of them
C11_Witness ==
    /\ RunReturned
    /\ AllEquivalentMod90
    /\ \E e \in DOMAIN bearing, f \in DOMAIN bearing : bearing[e] # bearing[f]
    /\ AllEdgesOneLabel

\* run has just returned without an exception
RunSucceeded == last_call = "run" /\ rpc = "idle" /\ raised = "none"

\* the intervals [boundaries[i-1], boundaries[i]) that contain the angle
\* b, each given by the place of its left boundary
IntervalsContaining(b) ==
    {i \in 1 .. Len(The(inter_vals.boundaries)) - 1 :
         /\ The(inter_vals.boundaries)[i] <= b
         /\ b < The(inter_vals.boundaries)[i + 1]}

\* the intervals whose center value is not None
CenteredIntervals ==
    {i \in 1 .. Len(The(inter_vals.center_values)) :
         The(inter_vals.center_values)[i] # None}

\* the entries of the partition list that stand for the interval i
EntriesOf(i) ==
    {k \in 1 .. Len(The(partition)) :
         /\ The(partition)[k].value = The(inter_vals.center_values)[i]
         /\ The(partition)[k].name =
                ToString(<<The(inter_vals.boundaries)[i],
                           The(inter_vals.boundaries)[i + 1]>>)}

\* C26: after a successful run every edge with a bearing_90 value b has the
\* bearing_group label that is the center value of the unique interval
\* [boundaries[i-1], boundaries[i]) containing b, and the partition list has
\* exactly one entry for every interval whose center value is not None, with
\* that center value as 'value' and the interval's two boundaries as 'name'.
C26_LabelIsCenterOfInterval ==
    RunSucceeded =>
        /\ \A e \in get_edge_attributes(bearing_90) :
               /\ Cardinality(IntervalsContaining(bearing_90[e][1])) = 1
               /\ \A i \in IntervalsContaining(bearing_90[e][1]) :
                      /\ i <= Len(The(inter_vals.center_values))
                      /\ bearing_group[e] =
                             Attr(The(inter_vals.center_values)[i])
        /\ Len(The(partition)) = Cardinality(CenteredIntervals)
        /\ \A i \in CenteredIntervals :
               /\ i < Len(The(inter_vals.boundaries))
               /\ Cardinality(EntriesOf(i)) = 1

----------------------------------------------------------------------------
(* Claims about merge_sets *)

\* the sets of a list, and two lists that hold the same sets
Range(list) == {list[k] : k \in DOMAIN list}
SameCollection(list_1, list_2) ==
    Len(list_1) = Len(list_2) /\ Range(list_1) = Range(list_2)

\* C12: merge_sets(merge_sets(S)) is the same collection of sets as
\* merge_sets(S), for every list of sets S and for every list of groups that
\* group_overlapping_intervals returns.
C12_MergeSetsIdempotent ==
    ms_pc = "twice" =>
        /\ The(ms_twice).err = "none"
        /\ SameCollection(SetsOf(The(ms_twice).sets), SetsOf(The(ms_once).sets))

\* the elements linked to those of X by a chain of sets of the list in which
\* consecutive sets share an element
RECURSIVE Chained(_, _)
Chained(sets, X) ==
    LET more == X \cup UNION {S \in Range(sets) : S \cap X # {}}
    IN  IF more = X THEN X ELSE Chained(sets, more)

\* C13: the sets that merge_sets returns are pairwise disjoint, their union
\* is the union of the input sets, and two elements are in the same returned
\* set if and only if a chain of input sets links them.
C13_MergeSetsMergesAll ==
    (ms_pc # "start" /\ The(ms_once).err = "none") =>
        LET returned == SetsOf(The(ms_once).sets)
        IN  /\ \A k \in DOMAIN returned, l \in DOMAIN returned :
                   k # l => returned[k] \cap returned[l] = {}
            /\ UNION Range(returned) = UNION Range(ms_sets)
            /\ \A a \in UNION Range(ms_sets), b \in UNION Range(ms_sets) :
                   (\E S \in Range(returned) : {a, b} \subseteq S)
                       <=> b \in Chained(ms_sets, {a})

----------------------------------------------------------------------------
(* Claims about the Metric *)

\* two dicts are equal: the same items, in whatever order
DictEq(dict_1, dict_2) == Range(dict_1) = Range(dict_2)

\* C19: a newly constructed Metric has coverage None, num_components None,
\* avg_path_length {E: None, S: None, N: None}, directness {ES: None,
\* EN: None, SN: None}, global_efficiency {SE: None, NE: None, NS: None}
\* and distance_matrix None.
C19_NewMetricFields ==
    mt_call = "__init__" =>
        /\ metric.coverage = None
        /\ metric.num_components = None
        /\ DictEq(metric.avg_path_length, NoneDict(<<"E", "S", "N">>))
        /\ DictEq(metric.directness, NoneDict(<<"ES", "EN", "SN">>))
        /\ DictEq(metric.global_efficiency, NoneDict(<<"SE", "NE", "NS">>))
        /\ IsNone("distance_matrix", metric.distance_matrix)

\* the string has the part somewhere
Contains(string, part) ==
    \E k \in 1 .. Len(string) - Len(part) + 1 :
        SubSeq(string, k, k + Len(part) - 1) = part

\* the string __str__ or __repr__ returned last
ReturnedString == The(mt_result)

\* C20: __str__ lists only the attributes that are not None and, of a dict
\* attribute, only the keys whose value is not None; a dict whose values are
\* all None is omitted; str(Metric()) is the empty string and repr(Metric())
\* is "Metric()"; repr is always the class name with str in parentheses.
C20_StrListsOnlySet ==
    /\ mt_call = "__str__" =>
           /\ \A key \in Range(DictOrder) :
                  (\/ IsNone(key, metric[key])
                   \/ /\ key \in DictAttributes
                      /\ \A k \in 1 .. Len(metric[key]) : metric[key][k].value = None)
                      => ~Contains(ReturnedString, key \o ": ")
           /\ ~Contains(ReturnedString, "None")
           /\ metric = Metric__init__(Some("time")) => ReturnedString = ""
    /\ mt_call = "__repr__" =>
           /\ ReturnedString = "Metric(" \o Metric__str__(metric) \o ")"
           /\ metric = Metric__init__(Some("time")) => ReturnedString = "Metric()"

\* the names of the parts that were saved and that hold the edge
OwningParts(e) ==
    LET parts == IF components # <<>> THEN components ELSE partitions
    IN  {parts[k].name : k \in {i \in 1 .. Len(parts) : e \in parts[i].subgraph}}

\* C16: after save_to_gpkg succeeds, every edge of the partitioner's graph
\* carries a classification attribute: the name of its owning component (or
\* partition) for an edge inside a component, and the fixed string "SPARSE"
\* for an edge of the sparsified graph.
C16_EveryEdgeClassified ==
    (gp_call = "save_to_gpkg" /\ gp_raised = "none") =>
        \A e \in graph.edges :
            /\ classification[e] # NoAttr
            /\ OwningParts(e) # {} => classification[e] \in OwningParts(e)
            /\ (OwningParts(e) = {} /\ e \in sparsified) =>
                   classification[e] = "SPARSE"

\* a step from the return of save(folder, name), without an exception, to the
\* return of load(name), with the same name
LoadAfterSave ==
    /\ mt_call = "save"
    /\ mt_raised = "none"
    /\ mt_call' = "load"
    /\ The(mt_arg').name = The(mt_arg).name

\* C14: after metric.save(folder, name), Metric.load(name) returns an object
\* that is equal to the original under Metric.__eq__, for every state of the
\* metric and every folder and name handed to save.
C14_SaveLoadRoundTrip ==
    [][LoadAfterSave =>
           /\ mt_raised' = "none"
           /\ Metric__eq__(The(mt_result'), metric)]_vars

\* every matrix of the dict was computed with the node order node_list
ComputedWith(matrices, node_list) ==
    \A k \in 1 .. Len(matrices) :
        /\ node_list # None
        /\ The(matrices[k].value).node_order = The(node_list)

\* C15: after any sequence of calculate_before and calculate_all calls on
\* one Metric, every matrix held in distance_matrix and predecessor_matrix
\* (labels E, S, N) was computed with the node order that node_list holds.
C15_NodeOrderConsistent ==
    /\ ComputedWith(metric.distance_matrix, metric.node_list)
    /\ ComputedWith(metric.predecessor_matrix, metric.node_list)

\* both labels of a key are labels of the distance matrix
LabelsPresent(distance_matrix, key) ==
    DictHas(distance_matrix, First(key)) /\ DictHas(distance_matrix, Second(key))

\* every key of the dict at entry is still declared; it holds the measure of
\* its two matrices when both are present, and the value it had otherwise
RecomputedOrSkipped(before, after, distance_matrix) ==
    /\ DictKeys(after) = DictKeys(before)
    /\ \A k \in 1 .. Len(before) :
           IF LabelsPresent(distance_matrix, before[k].key)
           THEN after[k].value =
                    MeasureOfPairs(distance_matrix, First(before[k].key),
                                   Second(before[k].key)).value
           ELSE after[k].value = before[k].value

\* C17: calculate_all_measure_sums recomputes every key declared in
\* directness and global_efficiency from the labels present in
\* distance_matrix; a declared key one of whose labels is missing from
\* distance_matrix is left as it is and causes no error.
C17_MissingLabelSkipped ==
    mt_call = "calculate_all_measure_sums" =>
        /\ mt_raised = "none"
        /\ RecomputedOrSkipped(mt_entry.directness, metric.directness,
                               mt_entry.distance_matrix)
        /\ RecomputedOrSkipped(mt_entry.global_efficiency,
                               metric.global_efficiency,
                               mt_entry.distance_matrix)

\* the weight of the matrix stored under the label
WeightOf(label) == The(DictGet(metric.distance_matrix, label)).weight

\* the last call was calculate_before or calculate_all and it returned
Calculated ==
    mt_call \in {"calculate_before", "calculate_all"} /\ mt_raised = "none"

\* C27: the full-graph computation S uses 'length' when the unit is
\* "distance", 'travel_time' when it is "time" and the unit itself otherwise
\* (None: hops); the restricted computation N uses 'length' for "distance",
\* 'travel_time_restricted' for "time" with replace_max_speeds, 'travel_time'
\* for "time" without, and the unit otherwise; the Euclidean matrix E is
\* computed if and only if the unit is "distance".
C27_WeightByUnit ==
    /\ Calculated =>
           /\ metric.unit = Some("distance") => WeightOf("S") = Some("length")
           /\ metric.unit = Some("time") => WeightOf("S") = Some("travel_time")
           /\ metric.unit \notin {Some("distance"), Some("time")} =>
                  WeightOf("S") = metric.unit
           /\ DictHas(metric.distance_matrix, "E") <=>
                  metric.unit = Some("distance")
    /\ (mt_call = "calculate_all" /\ mt_raised = "none") =>
           /\ metric.unit = Some("distance") => WeightOf("N") = Some("length")
           /\ (metric.unit = Some("time") /\ The(mt_arg).replace_max_speeds) =>
                  WeightOf("N") = Some("travel_time_restricted")
           /\ (metric.unit = Some("time") /\ ~The(mt_arg).replace_max_speeds) =>
                  WeightOf("N") = Some("travel_time")
           /\ metric.unit \notin {Some("distance"), Some("time")} =>
                  WeightOf("N") = metric.unit

\* calculate_all has returned for the hop count, maximum speeds replaced
C27_Witness ==
    /\ mt_call = "calculate_all"
    /\ mt_raised = "none"
    /\ metric.unit = None
    /\ The(mt_arg).replace_max_speeds
    /\ WeightOf("S") = None
    /\ WeightOf("N") = None
    /\ ~DictHas(metric.distance_matrix, "E")

\* a number strictly between 0 and 100: a float or an int that is finite,
\* above 0 and below 100 (that is below 200 halves of a percent)
StrictlyBetween0And100(percentile) ==
    /\ percentile.type \in {"float", "int", "bool"}
    /\ percentile.special = "finite"
    /\ percentile.halves \in 1 .. 199

\* C18: calculate_high_bc_clustering raises ValueError for every percentile
\* that is not a number strictly between 0 and 100, 0 and 100 themselves
\* included, and then high_bc_clustering and high_bc_anisotropy have the
\* values they had when it was called; for a percentile strictly between 0
\* and 100 it does not raise ValueError.
C18_PercentileOutOfRangeRaises ==
    mt_call = "calculate_high_bc_clustering" =>
        IF StrictlyBetween0And100(The(mt_arg))
        THEN mt_raised # "ValueError"
        ELSE /\ mt_raised = "ValueError"
             /\ metric.high_bc_clustering = mt_entry.high_bc_clustering
             /\ metric.high_bc_anisotropy = mt_entry.high_bc_anisotropy

\* the percentile 100 is refused on a Metric whose clustering has been
\* calculated before, and the clustering is still there
C18_Witness ==
    /\ mt_call = "calculate_high_bc_clustering"
    /\ The(mt_arg) = Number("int", 2 * 100)
    /\ mt_raised = "ValueError"
    /\ metric.high_bc_clustering # None
    /\ metric.high_bc_anisotropy # None

----------------------------------------------------------------------------
(* Claims about the writes of calculate_all to the graph *)

\* the attributes that calculate_all has written since it was entered
Written == {ca_writes[k] : k \in 1 .. Len(ca_writes)}

\* the attributes in the order in which calculate_all writes them
WriteOrder ==
    <<"node_betweenness_normal", "node_betweenness_normal_restricted",
      "rel_increase">>

\* the sums of the measures are the recomputed ones
SumsRecomputed ==
    LET sums == calculate_all_measure_sums(metric)
    IN  sums.err = "none" /\ sums.self = metric

\* C30: within calculate_all no step taken while the restricted computation N
\* runs changes the graph; the attributes are written one after the other in
\* the order full betweenness, restricted betweenness, relative increase; the
\* restricted betweenness is written only when N is stored under its own,
\* suffixed name; the relative increase is written last, with S and N in
\* distance_matrix and the sums of the measures recomputed
C30_GraphWrittenAfterRestricted ==
    [][/\ ca_pc = "restricted" => mt_part' = mt_part /\ ca_writes' = ca_writes
       /\ ca_pc # "idle" /\ mt_part'.attributes # mt_part.attributes
              => ca_writes' # ca_writes
       /\ ca_writes' = SubSeq(WriteOrder, 1, Len(ca_writes'))
       /\ ca_pc # "idle" /\ ca_writes' # ca_writes
              => /\ ca_pending = {}
                 /\ DictHas(metric.distance_matrix, "N")
                 /\ DictGet(metric.distance_matrix, "N")
                        = Matrix(The(metric.node_list),
                                 WeightRestricted(metric.unit, ca_arg))
                 /\ Len(ca_writes') = Len(ca_writes) + 1
                 /\ "node_betweenness_normal" \in mt_part'.attributes
       /\ ca_pc # "idle" /\ "rel_increase" \in {ca_writes'[k] :
                                 k \in 1 .. Len(ca_writes')} \ Written
              => /\ DictHas(metric.distance_matrix, "S")
                 /\ DictHas(metric.distance_matrix, "N")
                 /\ SumsRecomputed
                 /\ "node_betweenness_normal_restricted" \in Written
                 /\ ca_pc' = "idle" /\ mt_raised' = "none"]_vars

\* calculate_all has written all three attributes and returned, after a
\* restricted computation over more than one partition
C30_Witness ==
    /\ ca_pc = "idle"
    /\ ca_writes = WriteOrder
    /\ mt_call = "calculate_all"
    /\ mt_raised = "none"
    /\ mt_part.partitions # None
    /\ Cardinality({The(mt_part.partitions)[n] :
                       n \in DOMAIN The(mt_part.partitions)}) > 1

----------------------------------------------------------------------------
(* Claims about the diagnostic tag of components_are_connected *)

\* components_are_connected has been called and has returned
ComponentsConnectedReturned ==
    /\ \E k \in 1 .. Len(trace) : trace[k] = 2
    /\ pc \notin {"components_connected", "components_plot"}
    /\ ~Raised

\* the edges of the parts that are weakly connected
ConnectedEdges ==
    UNION {TheParts[i].subgraph :
               i \in {k \in 1 .. Len(TheParts) :
                          is_weakly_connected(TheParts[k].subgraph).value}}

\* C28: the diagnostic tag is cleared before the check returns: an edge has
\* highlight == 1 only while the failing component is being plotted, after
\* components_are_connected has returned no edge has it, and the edges of the
\* components that are weakly connected have not been touched at all.
C28_TagClearedAsStated ==
    /\ (\E e \in graph.edges : highlight[e] = Highlighted) =>
           pc = "components_plot"
    /\ ComponentsConnectedReturned =>
        /\ \A e \in graph.edges : highlight[e] # Highlighted
        /\ \A e \in ConnectedEdges \cap graph.edges : highlight[e] = NoAttr

----------------------------------------------------------------------------
(* Claims about determine_minmax_val *)

\* the values of the attribute that are not None
NotNoneValues == {The(v) : v \in {w \in mm_values : w # None}}

\* the bound the caller gave at the place, None when there is none
GivenBound(place) == IF mm_arg = None THEN None ELSE The(mm_arg)[place]

\* the pair the claim describes: a given bound unchanged, a missing one the
\* minimum resp. maximum of the values that are not None
ClaimedLo == IF GivenBound(1) # None THEN The(GivenBound(1))
             ELSE amin(NotNoneValues)
ClaimedHi == IF GivenBound(2) # None THEN The(GivenBound(2))
             ELSE amax(NotNoneValues)

\* C29: determine_minmax_val returns (lo, hi) with lo < hi or raises
\* ValueError: a bound the caller gave is returned unchanged, a bound that is
\* None is the minimum resp. maximum over all values of the attribute that
\* are not None, the value 0 included, and ValueError is raised whenever the
\* resulting lo is not smaller than hi.  (Stated where the minimum and the
\* maximum exist: a bound is only looked up among at least one value.)
C29_MinMaxOverNotNone ==
    (/\ mm_out # None
     /\ (GivenBound(1) = None \/ GivenBound(2) = None) => NotNoneValues # {})
    => IF ClaimedLo < ClaimedHi
       THEN /\ The(mm_out).err = "none"
            /\ The(mm_out).val = <<ClaimedLo, ClaimedHi>>
       ELSE The(mm_out).err = "ValueError"

----------------------------------------------------------------------------
(* Claims about the distance engine *)

\* two parts of the list have the same name
SameNameTwice ==
    \E i, j \in PartIds : i # j /\ TheParts[i].name = TheParts[j].name

\* two parts with different names have a node of their node sets in common
DifferentNamesShareNode ==
    \E i, j \in PartIds :
        /\ TheParts[i].name # TheParts[j].name
        /\ PartNodeSet(i) \cap PartNodeSet(j) # {}

\* two parts with different names have an edge in common
DifferentNamesShareEdge ==
    \E i, j \in PartIds :
        /\ TheParts[i].name # TheParts[j].name
        /\ PartEdges(i) \cap PartEdges(j) # {}

\* two components with different names overlap
DifferentNamesOverlap == DifferentNamesShareNode \/ DifferentNamesShareEdge

\* the checker has evaluated the check of that number
Checked(number) == \E k \in 1 .. Len(trace) : trace[k] = number

\* the checker has reported overlapping node sets of two components
NodeOverlapReported ==
    \E k \in 1 .. Len(log) : log[k].check = "node-overlap"

\* the checker has reported overlapping edge sets of two components: a pair
\* of names that does not hold the sparsified graph's
ComponentEdgeOverlapReported ==
    \E k \in 1 .. Len(log) :
        /\ log[k].check = "edge-overlap"
        /\ \E pair \in log[k].detail : pair[1] # "sparse" /\ pair[2] # "sparse"

\* the engine has ended with ValueError and returned no matrices
EngineRaised ==
    /\ The(d_out.N).err = "ValueError"
    /\ The(d_out.N).dist = <<>>
    /\ The(d_out.N).pred = <<>>

\* C21: calculate_partitioning_distance_matrix fails with ValueError and
\* returns no matrices whenever two components (or partitions) have the same
\* name, and, with check_overlap, whenever two components with different
\* names overlap.  The overlap it rejects is the one the validity checker
\* rejects: where no name is used twice and check_overlap is set, the engine
\* fails whenever the checker reports overlapping node sets (check 3) or
\* overlapping edge sets of two components (check 5), it does not fail when
\* the checker has found both checks met, it fails only when two components
\* with different names overlap, and what it fails for the checker never
\* accepts.
C21_DuplicatesAndOverlapRaise ==
    d_out.N # None =>
        /\ (SameNameTwice \/ (d_opts.check_overlap /\ DifferentNamesOverlap))
               => EngineRaised
        /\ (~SameNameTwice /\ d_opts.check_overlap) =>
               /\ (NodeOverlapReported \/ ComponentEdgeOverlapReported)
                      => EngineRaised
               /\ Checked(6) => The(d_out.N).err = "none"
               /\ (Checked(5) /\ EngineRaised) => ComponentEdgeOverlapReported
               /\ (Checked(3) /\ DifferentNamesShareNode) => NodeOverlapReported
               /\ The(d_out.N).err # "none" => (DifferentNamesOverlap /\ ~Accepted)

\* a renamed copy of a component whose nodes all lie in the sparsified graph:
\* no two node sets share a node, the engine has failed for the shared edges
\* and the checker has reported them at its check of the edge sets
C21_Witness ==
    /\ d_out.N # None
    /\ EngineRaised
    /\ d_opts.check_overlap
    /\ ~SameNameTwice
    /\ ~DifferentNamesShareNode
    /\ DifferentNamesShareEdge
    /\ Checked(5)
    /\ ComponentEdgeOverlapReported

\* S and N have been computed, both without an exception
BothComputed ==
    /\ d_out.S # None
    /\ d_out.N # None
    /\ The(d_out.S).err = "none"
    /\ The(d_out.N).err = "none"

\* the node at a place of the node order
NodeAt(i) == NodeOrder(graph, d_order)[i]

\* the nodes of the subgraph of the component the node is a node of, none
\* for a node of the sparsified graph
OwnComponentNodes(n) ==
    UNION {SubgraphNodes(c) : c \in {k \in PartIds : n \in PartNodeSet(k)}}

\* C22: for a valid partitioning and the same edge weight, not negative, the
\* restricted distance is never smaller than the full-graph distance:
\* N(i, j) >= S(i, j) for every pair; and a node outside the start node's
\* component that is reached at all is reached over an edge of the
\* sparsified graph.
C22_RestrictedNeverShorter ==
    (BothComputed /\ AllSeven) =>
        \A i, j \in 1 .. Len(NodeOrder(graph, d_order)) :
            /\ The(d_out.N).dist[i][j] >= The(d_out.S).dist[i][j]
            /\ (/\ i # j
                /\ The(d_out.N).dist[i][j] < Inf
                /\ NodeAt(j) \notin OwnComponentNodes(NodeAt(i)))
               => \E e \in sparsified :
                      /\ e[2] = NodeAt(j)
                      /\ The(d_out.N).pred[i][j] =
                             IndexOf(NodeOrder(graph, d_order), e[1])

\* on the street with the way round, node 1 in one component and node 3 in
\* another: the restricted path from 1 to 4 is longer than the shortest one
C22_Witness ==
    /\ BothComputed
    /\ AllSeven
    /\ graph = ShortcutGraph
    /\ Len(TheParts) = 2
    /\ \E i, j \in 1 .. Len(NodeOrder(graph, d_order)) :
           /\ NodeAt(i) = 1
           /\ NodeAt(j) = 4
           /\ The(d_out.N).dist[i][j] < Inf
           /\ The(d_out.N).dist[i][j] > The(d_out.S).dist[i][j]

\* the matrix is square, one row and one column for every node
SquareOverNodes(matrix) ==
    /\ Len(matrix) = Cardinality(graph.nodes)
    /\ \A i \in 1 .. Len(matrix) : Len(matrix[i]) = Cardinality(graph.nodes)

\* the labels whose matrices were returned
ReturnedLabels ==
    {l \in {"E", "S", "N"} : d_out[l] # None /\ The(d_out[l]).err = "none"}

\* C23: for every node order, given or default, each of the matrices E, S
\* and N is square with one row per node, has a diagonal of exactly 0 and
\* is not negative wherever it is finite; the predecessor matrices of S and
\* N have the same shape and integer entries.
C23_MatrixShape ==
    \A l \in ReturnedLabels :
        /\ SquareOverNodes(The(d_out[l]).dist)
        /\ \A i, j \in 1 .. Len(The(d_out[l]).dist) :
               /\ i = j => The(d_out[l]).dist[i][j] = 0
               /\ The(d_out[l]).dist[i][j] < Inf
                      => The(d_out[l]).dist[i][j] >= 0
        /\ l # "E" =>
               /\ SquareOverNodes(The(d_out[l]).pred)
               /\ \A i, j \in 1 .. Len(The(d_out[l]).pred) :
                      The(d_out[l]).pred[i][j] \in Int

\* the three matrices were returned for the reversed node order, with a pair
\* that is not connected and an edge of weight 0
C23_Witness ==
    /\ ReturnedLabels = {"E", "S", "N"}
    /\ d_order = Some(Reversed(SortedSeq(graph.nodes)))
    /\ \E e \in graph.edges : d_weight[e] = 0
    /\ \E i, j \in 1 .. Cardinality(graph.nodes) :
           The(d_out.S).dist[i][j] = Inf
    /\ \E i, j \in 1 .. Cardinality(graph.nodes) :
           i # j /\ The(d_out.N).dist[i][j] < Inf

\* the nodes whose rows the chunk's worker computes
NodesOfChunk(c) ==
    LET sps == StartParts(components, partitions, sparsified)
    IN  UNION {sps[k].nodes :
                   k \in PartsOfChunk(c, Len(sps), d_opts.chunk_size)}

\* a step of a worker: it writes rows that were not written before, and only
\* rows of the nodes of the chunk that it finishes
WritesOwnRowsOnce ==
    \A i \in DOMAIN d_rows :
        d_rows'[i] # d_rows[i] =>
            /\ d_rows[i] = Unwritten
            /\ \E c \in d_flight \ d_flight' : NodeAt(i) \in NodesOfChunk(c)

\* C24: the restricted distance computation does not depend on the
\* scheduling: for every number of workers, chunk size and memory factor,
\* and for every order in which the workers finish, the matrices returned
\* are the same, those of the parts computed one after the other; a worker
\* writes only the rows of the nodes of its own parts, and no cell is
\* written twice.
C24_SchedulingIndependent ==
    [][/\ (d_pc = "running" /\ d_pc' = "running") => WritesOwnRowsOnce
       /\ (d_pc = "running" /\ d_pc' = "done") =>
              The(d_out'.N) = calculate_partitioning_distance_matrix(
                                  graph, components, partitions, sparsified,
                                  d_weight, d_order, d_opts.check_overlap)]_vars

\* two workers: a later chunk is finished and its rows are written while an
\* earlier chunk is still being computed
C24_Witness ==
    /\ d_pc = "running"
    /\ d_opts.num_workers = 2
    /\ \E c \in d_flight :
           \E later \in ChunkIds(Len(TheParts) + 1, d_opts.chunk_size) :
               /\ later > c
               /\ later \notin d_pending \cup d_flight
               /\ NodesOfChunk(later) # {}
               /\ \A i \in DOMAIN d_rows :
                      NodeAt(i) \in NodesOfChunk(later) => d_rows[i] # Unwritten

\* C25: calculate_path_distance_matrix raises ValueError, and returns no
\* matrix, whenever at least one edge has a negative value for the chosen
\* weight.
C25_NegativeWeightRaises ==
    (d_out.S # None /\ \E e \in graph.edges : d_weight[e] < 0) =>
        /\ The(d_out.S).err = "ValueError"
        /\ The(d_out.S).dist = <<>>
        /\ The(d_out.S).pred = <<>>

\* the call was made on a graph with one negative edge among positive ones
C25_Witness ==
    /\ d_out.S # None
    /\ \E e \in graph.edges : d_weight[e] < 0
    /\ \E e \in graph.edges : d_weight[e] > 0
    /\ The(d_out.S).err = "ValueError"

----------------------------------------------------------------------------
(* Specifications of the partitioner *)

\* a partitioner on a small graph, and every call a caller can make
InitRun ==
    /\ CheckerUnused /\ MergeUnused /\ MetricUnused /\ GpkgUnused
    /\ PlotUnused /\ DistUnused /\ StepsUnused
    /\ \E g \in BearingGraphs : PartitionerInit(g)

NextRun == PartitionerNext

SpecRun == InitRun /\ [][NextRun]_vars

\* run alone, on a graph for every histogram of a window of bins, and on a
\* graph with nine peaks
InitHistogram ==
    /\ CheckerUnused /\ MergeUnused /\ MetricUnused /\ GpkgUnused
    /\ PlotUnused /\ DistUnused /\ StepsUnused
    /\ \E g \in HistogramGraphs \cup {NinePeaksGraph} : PartitionerInit(g)

NextHistogram == RunNext

SpecHistogram == InitHistogram /\ [][NextHistogram]_vars

\* run alone, on the graphs whose bearings are all equivalent modulo 90
InitEquivalent ==
    /\ CheckerUnused /\ MergeUnused /\ MetricUnused /\ GpkgUnused
    /\ PlotUnused /\ DistUnused /\ StepsUnused
    /\ \E g \in EquivalentGraphs \cup {EmptyGraph} : PartitionerInit(g)

NextEquivalent == RunNext

SpecEquivalent == InitEquivalent /\ [][NextEquivalent]_vars

\* one call of merge_sets on a list of sets, or one call of
\* group_overlapping_intervals on arrays of bases, and merge_sets once more
InitMerge ==
    /\ CheckerUnused
    /\ GpkgUnused /\ PlotUnused /\ DistUnused /\ StepsUnused
    /\ PartitionerUnused
    /\ MetricUnused
    /\ \/ \E sets \in SetLists(MaxSets) : MergeInit(None, sets)
       \/ \E bases \in BaseArrays(MaxSets) : MergeInit(Some(bases), <<>>)

NextMerge == MergeNext

SpecMerge == InitMerge /\ [][NextMerge]_vars

\* a new Metric of every unit, the assignments of a caller, str and repr
InitMetricStr ==
    /\ CheckerUnused
    /\ GpkgUnused /\ PlotUnused /\ DistUnused /\ StepsUnused
    /\ PartitionerUnused
    /\ MergeUnused
    /\ \E unit \in Units : MetricInit(unit, NoPartitioner)

NextMetricStr == MetricStrNext

SpecMetricStr == InitMetricStr /\ [][NextMetricStr]_vars

\* a Metric of any unit and a partitioner that has not run yet: the
\* partitioner runs, and the Metric is calculated, in any order
InitMetricCalculate ==
    /\ CheckerUnused /\ PartitionerUnused /\ MergeUnused /\ GpkgUnused
    /\ PlotUnused /\ DistUnused /\ StepsUnused
    /\ \E unit \in Units, part \in Partitioners : MetricInit(unit, part)

NextMetricCalculate == MetricCalculateNext

SpecMetricCalculate == InitMetricCalculate /\ [][NextMetricCalculate]_vars

\* a Metric of any unit and a partitioner that has not run yet: the
\* partitioner runs between the calls, and calculate_all is followed
\* statement by statement
InitMetricSteps == InitMetricCalculate

NextMetricSteps == MetricStepsNext

SpecMetricSteps == InitMetricSteps /\ [][NextMetricSteps]_vars

\* the same Metric and partitioner: the clustering of the nodes of high
\* betweenness is calculated with any percentile, before and after the
\* partitioner runs
InitMetricClustering == InitMetricCalculate

NextMetricClustering == MetricClusteringNext

SpecMetricClustering == InitMetricClustering /\ [][NextMetricClustering]_vars

\* a Metric of any unit, no file saved yet: the Metric changes, is saved
\* under any folder and name, and is loaded by any name
InitMetricFiles ==
    /\ CheckerUnused /\ PartitionerUnused /\ MergeUnused /\ GpkgUnused
    /\ PlotUnused /\ DistUnused /\ StepsUnused
    /\ \E unit \in Units, part \in Partitioners, dirs \in SUBSET MadeDirs :
           MetricInitIn(unit, part, dirs)

NextMetricFiles == MetricFilesNext

SpecMetricFiles == InitMetricFiles /\ [][NextMetricFiles]_vars

\* a partitioner with any components, partitions and sparsified graph is
\* saved to a geopackage
InitGpkg == GpkgInit /\ PartitionerUnused /\ MergeUnused /\ MetricUnused

NextGpkg == GpkgNext

SpecGpkg == InitGpkg /\ [][NextGpkg]_vars

----------------------------------------------------------------------------
(* Specifications *)

\* the validity checker on every enumerated partitioning
Init ==
    CheckerInit /\ PartitionerUnused /\ MergeUnused /\ MetricUnused
       /\ GpkgUnused /\ PlotUnused /\ DistUnused /\ StepsUnused

Next == CheckerNext

Spec == Init /\ [][Next]_vars

InitPlot ==
    /\ PlotInit
    /\ CheckerUnused /\ PartitionerUnused /\ MergeUnused /\ MetricUnused
    /\ GpkgUnused /\ DistUnused /\ StepsUnused

NextPlot == PlotNext

SpecPlot == InitPlot /\ [][NextPlot]_vars

\* the full-graph matrices on their own: every graph, every weight from -1
\* to 2 on every edge, every node order
InitPathMatrix ==
    /\ graph \in {CycleGraph, PathGraph, TwoWayGraph, SplitGraph}
    /\ PartitioningOf([e \in graph.edges |-> 0], "no", FALSE)
    /\ CheckerAt("unused")
    /\ d_weight \in [graph.edges -> (0 - 1) .. 2]
    /\ d_order \in {None} \cup {Some(p) : p \in NodeOrders(graph.nodes)}
    /\ d_opts = Sequential
    /\ DistIdle
    /\ PartitionerUnused /\ MergeUnused /\ MetricUnused /\ GpkgUnused
    /\ PlotUnused /\ StepsUnused

NextPathMatrix == CalculateEuclidean \/ CalculatePath

SpecPathMatrix == InitPathMatrix /\ [][NextPathMatrix]_vars

\* the restricted computation and the checker on the same partitioning:
\* every assignment of the edges to the sparsified graph and the components,
\* as it is, with every part twice, and with a renamed copy of the last part
InitDistanceChecks ==
    /\ graph \in {CycleGraph, PathGraph, TwoWayGraph, SplitGraph}
    /\ \E own \in [graph.edges -> 0 .. MaxOwners],
          how \in {"no", "same", "renamed"}, as_components \in BOOLEAN :
           PartitioningOf(own, how, as_components)
    /\ CheckerAt("sparsified_connected")
    /\ d_weight = [e \in graph.edges |-> 1]
    /\ d_order = None
    /\ \E check_overlap \in BOOLEAN :
           d_opts = [Sequential EXCEPT !.check_overlap = check_overlap]
    /\ DistIdle
    /\ PartitionerUnused /\ MergeUnused /\ MetricUnused /\ GpkgUnused
    /\ PlotUnused /\ StepsUnused

NextDistanceChecks ==
    \/ CalculatePartitioning
    \/ SparsifiedConnected
    \/ ComponentConnected
    \/ ComponentPlotted
    \/ ComponentsConnectedReturn
    \/ NodesOverlap
    \/ NodesMissing
    \/ EdgesOverlap
    \/ EdgesMissing
    \/ ConnectSparsified

SpecDistanceChecks == InitDistanceChecks /\ [][NextDistanceChecks]_vars

\* the three matrices of one partitioning: every assignment of the edges to
\* the sparsified graph and the components, every weight from 0 to 2 on
\* every edge, the default and the reversed node order
InitDistanceMatrices ==
    /\ graph \in {CycleGraph, ShortcutGraph, TwoWayGraph, SplitGraph}
    /\ \E own \in [graph.edges -> 0 .. MaxOwners] :
           PartitioningOf(own, "no", FALSE)
    /\ CheckerAt("unused")
    /\ d_weight \in [graph.edges -> 0 .. 2]
    /\ d_order \in {None, Some(Reversed(SortedSeq(graph.nodes)))}
    /\ d_opts = Sequential
    /\ DistIdle
    /\ PartitionerUnused /\ MergeUnused /\ MetricUnused /\ GpkgUnused
    /\ PlotUnused /\ StepsUnused

NextDistanceMatrices ==
    \/ CalculateEuclidean
    \/ CalculatePath
    \/ CalculatePartitioning

SpecDistanceMatrices == InitDistanceMatrices /\ [][NextDistanceMatrices]_vars

\* the three matrices for every node order: the weights 0 and 1
InitDistanceOrders ==
    /\ graph \in {CycleGraph, ShortcutGraph, TwoWayGraph, SplitGraph}
    /\ \E own \in [graph.edges -> 0 .. MaxOwners] :
           PartitioningOf(own, "no", FALSE)
    /\ CheckerAt("unused")
    /\ d_weight \in {[e \in graph.edges |-> 1],
                     [e \in graph.edges |-> e[1] % 2]}
    /\ d_order \in {None} \cup {Some(p) : p \in NodeOrders(graph.nodes)}
    /\ d_opts = Sequential
    /\ DistIdle
    /\ PartitionerUnused /\ MergeUnused /\ MetricUnused /\ GpkgUnused
    /\ PlotUnused /\ StepsUnused

SpecDistanceOrders == InitDistanceOrders /\ [][NextDistanceMatrices]_vars

\* the restricted computation with its workers: every assignment of the
\* edges, every number of workers and chunk size, with and without room in
\* memory, the default and the reversed node order
InitDistanceWorkers ==
    /\ graph \in {CycleGraph, ShortcutGraph}
    /\ \E own \in [graph.edges -> 0 .. MaxOwners] :
           PartitioningOf(own, "no", FALSE)
    /\ CheckerAt("unused")
    /\ d_weight = [e \in graph.edges |-> e[1] % 3]
    /\ d_order \in {None, Some(Reversed(SortedSeq(graph.nodes)))}
    /\ \E num_workers \in 1 .. MaxWorkers, chunk_size \in 1 .. MaxWorkers,
          max_mem_factor \in {0, 5} :
           d_opts = [num_workers |-> num_workers, chunk_size |-> chunk_size,
                     max_mem_factor |-> max_mem_factor, check_overlap |-> TRUE]
    /\ DistIdle
    /\ PartitionerUnused /\ MergeUnused /\ MetricUnused /\ GpkgUnused
    /\ PlotUnused /\ StepsUnused

NextDistanceWorkers ==
    \/ PartitioningStart
    \/ WorkerStart
    \/ WorkerFinish
    \/ PartitioningReturn

SpecDistanceWorkers == InitDistanceWorkers /\ [][NextDistanceWorkers]_vars

====
